---- MODULE Spec2Model ----
(***************************************************************************)
(* Two-player card game engine (GitCards).  The first part models the base *)
(* game of "Python Cards/CardBaseGame.py": the card model, the common pile *)
(* with its burn detection, the player zones, GameState.play and the       *)
(* command loop of run_base_game / process_command.  Further parts model   *)
(* the game of "game_full_v_2.py" (play, offenses, burns, commands), the   *)
(* Card, CommonPile and Player of "Python Cards/CardsGameEngine1.py", and  *)
(* the command loop of the engine in "Python Cards/test_cards_game.py".    *)
(***************************************************************************)
EXTENDS Integers, Sequences, FiniteSets, TLC

(***************************************************************************)
(* Card model                                                              *)
(***************************************************************************)
\* Python's None for a rank (ranks are the integers 2..14 of enum Rank)
None == 0
\* Python's None for a suit (suits are the strings "S","H","D","C")
NoSuit == "-"

TWO == 2
THREE == 3
FOUR == 4
FIVE == 5
SIX == 6
SEVEN == 7
EIGHT == 8
NINE == 9
TEN == 10
J == 11
Q == 12
K == 13
A == 14

\* Card(rank, suit) with the default card_type NORMAL
Card(rank, suit) == [type |-> "NORMAL", rank |-> rank, suit |-> suit]

\* Card(card_type=CardType.JOKER): rank and suit stay None
JK == [type |-> "JOKER", rank |-> None, suit |-> NoSuit]

is_normal(c) == c.type = "NORMAL"

is_joker(c) == c.type = "JOKER"

\* Card.__eq__: structural equality on (type, rank, suit)
card_eq(c, other) == c.type = other.type /\ c.rank = other.rank /\ c.suit = other.suit

\* Python's "x in list" for cards, which uses Card.__eq__
card_in(c, zone) == \E i \in 1..Len(zone) : card_eq(zone[i], c)

\* effective_rank that folds the Ten into the Eight as well
effective_rank_with_ten(r) == IF r \in {EIGHT, NINE, TEN} THEN EIGHT ELSE r

\* effective_rank: Eight and Nine count as one rank
effective_rank(r) == IF r \in {EIGHT, NINE} THEN EIGHT ELSE r

(***************************************************************************)
(* Sequence helpers (list.pop(i), list slicing)                            *)
(***************************************************************************)
pop_at(zone, i) == [k \in 1..(Len(zone) - 1) |-> IF k < i THEN zone[k] ELSE zone[k + 1]]

(***************************************************************************)
(* CommonPile                                                              *)
(***************************************************************************)
\* a card that detect_burns counts: normal and neither a Two nor a Three
burn_counted(c) == is_normal(c) /\ c.rank \notin {TWO, THREE}

\* burn_count without the fusion of Eight and Nine: counts the literal rank
burn_count_literal(cards, r) ==
    Cardinality({i \in 1..Len(cards) : burn_counted(cards[i]) /\ cards[i].rank = r})

\* the Counter's value for effective rank r after the scan of the whole pile
burn_count(cards, r) ==
    Cardinality({i \in 1..Len(cards) : burn_counted(cards[i]) /\ effective_rank(cards[i].rank) = r})

\* the Counter's keys in insertion order: the effective ranks in the order of
\* their first occurrence, scanning the pile from index 0 (the bottom)
RECURSIVE counter_keys(_, _)
counter_keys(cards, seen) ==
    IF cards = <<>> THEN <<>>
    ELSE LET c == Head(cards)
             r == effective_rank(c.rank)
         IN  IF burn_counted(c) /\ r \notin seen
             THEN <<r>> \o counter_keys(Tail(cards), seen \cup {r})
             ELSE counter_keys(Tail(cards), seen)

\* keep the keys with n >= 4, each with n // 4, in the Counter's order
RECURSIVE burns_of(_, _)
burns_of(cards, keys) ==
    IF keys = <<>> THEN <<>>
    ELSE LET r == Head(keys)
             n == burn_count(cards, r)
         IN  (IF n >= 4 THEN <<[rank |-> r, count |-> n \div 4]>> ELSE <<>>)
             \o burns_of(cards, Tail(keys))

\* CommonPile.detect_burns: the dict {rank: count} as a sequence in dict order
detect_burns(cards) == burns_of(cards, counter_keys(cards, {}))

\* CommonPile.add
pile_add(cards, played) == cards \o played

(***************************************************************************)
(* Player: a record [hand, face_up, face_down, personal_pile, has_status]  *)
(***************************************************************************)
max_hand(pl) == IF pl.has_status THEN 5 ELSE 4

\* Player.replenish: draw from the front of the personal pile to the limit
RECURSIVE replenish(_)
replenish(pl) ==
    IF Len(pl.hand) < max_hand(pl) /\ pl.personal_pile # <<>>
    THEN replenish([pl EXCEPT !.hand = Append(pl.hand, Head(pl.personal_pile)),
                              !.personal_pile = Tail(pl.personal_pile)])
    ELSE pl

\* all_cards_empty that looks at the playable zones only
all_cards_empty_playable(pl) == pl.hand = <<>> /\ pl.face_up = <<>>

all_cards_empty(pl) ==
    pl.personal_pile = <<>> /\ pl.hand = <<>> /\ pl.face_up = <<>> /\ pl.face_down = <<>>

\* the test of the inner loop of remove_from_zones
zone_match(c, card) ==
    \/ is_joker(c) /\ is_joker(card)
    \/ is_normal(c) /\ is_normal(card) /\ c.rank = card.rank /\ c.suit = card.suit

\* index of the first card of the zone that matches, 0 when there is none
first_match(zone, card) ==
    IF \E i \in 1..Len(zone) : zone_match(zone[i], card)
    THEN CHOOSE i \in 1..Len(zone) :
            /\ zone_match(zone[i], card)
            /\ \A k \in 1..(i - 1) : ~zone_match(zone[k], card)
    ELSE 0

\* remove_from_zones with the zones walked in the order (face_up, hand)
remove_from_zones_face_up_first(pl, card) ==
    LET ih == first_match(pl.hand, card)
        iu == first_match(pl.face_up, card)
    IN  IF iu > 0 THEN [ok |-> TRUE, pl |-> [pl EXCEPT !.face_up = pop_at(pl.face_up, iu)]]
        ELSE IF ih > 0 THEN [ok |-> TRUE, pl |-> [pl EXCEPT !.hand = pop_at(pl.hand, ih)]]
        ELSE [ok |-> FALSE, pl |-> pl]

\* Player.remove_from_zones: hand first, then face_up; [ok, pl]
remove_from_zones(pl, card) ==
    LET ih == first_match(pl.hand, card)
        iu == first_match(pl.face_up, card)
    IN  IF ih > 0 THEN [ok |-> TRUE, pl |-> [pl EXCEPT !.hand = pop_at(pl.hand, ih)]]
        ELSE IF iu > 0 THEN [ok |-> TRUE, pl |-> [pl EXCEPT !.face_up = pop_at(pl.face_up, iu)]]
        ELSE [ok |-> FALSE, pl |-> pl]

\* Player.has_block_piece: a Joker or a Four in hand
has_block_piece(pl) ==
    \E i \in 1..Len(pl.hand) :
        is_joker(pl.hand[i]) \/ (is_normal(pl.hand[i]) /\ pl.hand[i].rank = FOUR)

\* Player.take_pile_into_hand
take_pile_into_hand(pl, cards) == [pl EXCEPT !.hand = pl.hand \o cards]

(***************************************************************************)
(* GameState: a record [players, current_idx, common_pile, means_active,   *)
(* means_limit, first_burn, status_rank]; players is indexed by 0 and 1    *)
(***************************************************************************)
opponent(g) == 1 - g.current_idx

\* set_status_on_first_burn without the one-shot gate on the rank
set_status_every_burn(g, p, burn_rank) ==
    [g EXCEPT !.first_burn = TRUE,
              !.status_rank = burn_rank,
              !.players[p].has_status = IF g.first_burn THEN @ ELSE TRUE]

\* GameState.set_status_on_first_burn
set_status_on_first_burn(g, p, burn_rank) ==
    IF ~g.first_burn
    THEN [g EXCEPT !.first_burn = TRUE,
                   !.status_rank = burn_rank,
                   !.players[p].has_status = TRUE]
    ELSE g

\* transfer_status_due_to_means that forgets to take the ability away
transfer_keeps_defender(g, attacker, defender) ==
    IF g.players[defender].has_status
    THEN [g EXCEPT !.players[attacker].has_status = TRUE]
    ELSE g

\* GameState.transfer_status_due_to_means
transfer_status_due_to_means(g, attacker, defender) ==
    IF g.players[defender].has_status
    THEN [[g EXCEPT !.players[defender].has_status = FALSE]
             EXCEPT !.players[attacker].has_status = TRUE]
    ELSE g

\* breaks_means with ">" for ">=": a card equal to the limit passes
breaks_means_gt(g, c) ==
    /\ is_normal(c)
    /\ effective_rank(c.rank) # THREE
    /\ g.means_limit # None
    /\ effective_rank(c.rank) > effective_rank(g.means_limit)

\* the per-card test of legal_under_means: TRUE when card c breaks the limit
breaks_means(g, c) ==
    /\ is_normal(c)
    /\ effective_rank(c.rank) # THREE
    /\ g.means_limit # None
    /\ effective_rank(c.rank) >= effective_rank(g.means_limit)

\* legal_under_means that never looks at the limit
legal_under_means_no_limit(g, cards, via_pair) ==
    IF via_pair THEN TRUE
    ELSE IF ~g.means_active THEN TRUE
    ELSE TRUE

\* GameState.legal_under_means
legal_under_means(g, cards, via_pair) ==
    IF via_pair THEN TRUE
    ELSE IF ~g.means_active THEN TRUE
    ELSE ~\E i \in 1..Len(cards) : breaks_means(g, cards[i])

\* burn_once that leaves the means state alone
burn_once_keeps_means(g, p, r) ==
    [set_status_on_first_burn(g, p, r) EXCEPT !.common_pile = <<>>]

\* burn_once that leaves the burnt cards on the pile
burn_once_keeps_pile(g, p, r) ==
    [set_status_on_first_burn(g, p, r) EXCEPT !.means_active = FALSE,
                                              !.means_limit = None]

\* the body of the two loops of resolve_burns_if_any, for one burn set
burn_once(g, p, r) ==
    [set_status_on_first_burn(g, p, r) EXCEPT !.common_pile = <<>>,
                                              !.means_active = FALSE,
                                              !.means_limit = None]

\* "for i in range(count)"
RECURSIVE burn_times(_, _, _, _)
burn_times(g, p, r, count) ==
    IF count = 0 THEN g ELSE burn_times(burn_once(g, p, r), p, r, count - 1)

\* "for r, count in burns.items()"
RECURSIVE burn_loop(_, _, _)
burn_loop(g, p, burns) ==
    IF burns = <<>> THEN g
    ELSE burn_loop(burn_times(g, p, Head(burns).rank, Head(burns).count), p, Tail(burns))

\* GameState.resolve_burns_if_any
resolve_burns_if_any(g, p) ==
    LET burns == detect_burns(g.common_pile)
    IN  IF burns = <<>> THEN g ELSE burn_loop(g, p, burns)

\* _force_pickup that hands the cards over without clearing the pile
force_pickup_keeps_pile(g, defender) ==
    LET g1 == IF g.common_pile # <<>>
              THEN [g EXCEPT !.players[defender] = take_pile_into_hand(@, g.common_pile)]
              ELSE g
    IN  [g1 EXCEPT !.means_active = FALSE, !.means_limit = None]

\* GameState._force_pickup
force_pickup(g, defender) ==
    LET g1 == IF g.common_pile # <<>>
              THEN [g EXCEPT !.players[defender] = take_pile_into_hand(@, g.common_pile),
                             !.common_pile = <<>>]
              ELSE g
    IN  [g1 EXCEPT !.means_active = FALSE, !.means_limit = None]

\* play, "Validate possession": TRUE when some listed card is in neither zone
possession_miss(pl, raw_cards) ==
    \E i \in 1..Len(raw_cards) :
        ~card_in(raw_cards[i], pl.hand) /\ ~card_in(raw_cards[i], pl.face_up)

\* joker_not_alone that looks at the first listed card only
joker_first_only(raw_cards) ==
    raw_cards # <<>> /\ is_joker(raw_cards[1]) /\ Len(raw_cards) # 1

\* play, "JK must be played alone"
joker_not_alone(raw_cards) ==
    (\E i \in 1..Len(raw_cards) : is_joker(raw_cards[i])) /\ Len(raw_cards) # 1

\* play, "Remove from zones": [pl, played]
RECURSIVE remove_all(_, _)
remove_all(pl, raw_cards) ==
    IF raw_cards = <<>> THEN [pl |-> pl, played |-> <<>>]
    ELSE LET r == remove_from_zones(pl, Head(raw_cards))
             rest == remove_all(r.pl, Tail(raw_cards))
         IN  [pl |-> rest.pl,
              played |-> (IF r.ok THEN <<Head(raw_cards)>> ELSE <<>>) \o rest.played]

is_means_card(c) == is_normal(c) /\ c.rank \in {FIVE, SEVEN}

has_means_card(played) == \E i \in 1..Len(played) : is_means_card(played[i])

\* play: the 2+{5/7} same-suit pair test under via_pair
via_pair_with_means(played, via_pair) ==
    LET normals == {i \in 1..Len(played) : is_normal(played[i])}
        ranks == {played[i].rank : i \in normals}
        suits == {played[i].suit : i \in normals}
    IN  /\ via_pair
        /\ TWO \in ranks
        /\ (FIVE \in ranks \/ SEVEN \in ranks)
        /\ Cardinality(suits) = 1

\* means_anchor scanning forward: the rank of the first means card
means_anchor_first(played) ==
    IF has_means_card(played)
    THEN played[CHOOSE i \in 1..Len(played) :
                    /\ is_means_card(played[i])
                    /\ \A k \in 1..(i - 1) : ~is_means_card(played[k])].rank
    ELSE None

\* play: "for c in reversed(played)": the rank of the last means card, or None
means_anchor(played) ==
    IF has_means_card(played)
    THEN played[CHOOSE i \in 1..Len(played) :
                    /\ is_means_card(played[i])
                    /\ \A k \in (i + 1)..Len(played) : ~is_means_card(played[k])].rank
    ELSE None

\* play: the fallback anchor of a pair-only trigger
pair_anchor(played) ==
    IF \E i \in 1..Len(played) : is_normal(played[i]) /\ played[i].rank = FIVE
    THEN FIVE ELSE SEVEN

\* play, "Means activation"
means_step(g, p, opp, played, via_pair) ==
    IF has_means_card(played) \/ via_pair_with_means(played, via_pair)
    THEN LET g1 == transfer_status_due_to_means(g, p, opp)
             anchor == IF via_pair_with_means(played, via_pair) /\ means_anchor(played) = None
                       THEN pair_anchor(played)
                       ELSE means_anchor(played)
         IN  [g1 EXCEPT !.means_active = TRUE, !.means_limit = anchor]
    ELSE [g EXCEPT !.means_active = FALSE, !.means_limit = None]

\* the answers the defender can type at the block prompt
BlockChoices == {"JK", "4S", "4H", "4D", "4C", "no"}

\* suit_map[choice[1]] for the answers "4S", "4H", "4D", "4C"
suit_map(choice) ==
    CASE choice = "4S" -> "S" [] choice = "4H" -> "H" [] choice = "4D" -> "D" [] choice = "4C" -> "C"

\* index of the first Joker in the hand, 0 when there is none
first_joker(hand) ==
    IF \E i \in 1..Len(hand) : is_joker(hand[i])
    THEN CHOOSE i \in 1..Len(hand) :
            is_joker(hand[i]) /\ \A k \in 1..(i - 1) : ~is_joker(hand[k])
    ELSE 0

\* list.remove(target): drop the first card equal to target
list_remove(hand, target) ==
    pop_at(hand, CHOOSE i \in 1..Len(hand) :
                    card_eq(hand[i], target) /\ \A k \in 1..(i - 1) : ~card_eq(hand[k], target))

\* play, "JK offense resolution"
joker_step(g, opp, played, choice) ==
    IF played # <<>> /\ is_joker(played[Len(played)])
    THEN IF has_block_piece(g.players[opp])
         THEN IF choice = "JK"
              THEN LET i == first_joker(g.players[opp].hand)
                   IN  IF i > 0 THEN [g EXCEPT !.players[opp].hand = pop_at(@, i)] ELSE g
              ELSE IF choice \in {"4S", "4H", "4D", "4C"}
              THEN LET target == Card(FOUR, suit_map(choice))
                   IN  IF card_in(target, g.players[opp].hand)
                       THEN [g EXCEPT !.players[opp].hand = list_remove(@, target)]
                       ELSE force_pickup(g, opp)
              ELSE force_pickup(g, opp)
         ELSE force_pickup(g, opp)
    ELSE g

\* play with the means check made after the cards have left the zones
play_checks_means_late(g, p, raw_cards, via_pair, choice) ==
    LET opp == opponent(g)
        rejected(g0, why) == [g |-> g0, result |-> why, played |-> <<>>, burns |-> <<>>,
                              win |-> FALSE,
                              status_after_means |-> [i \in {0, 1} |-> g.players[i].has_status]]
    IN  IF possession_miss(g.players[p], raw_cards) THEN rejected(g, "not_owned")
        ELSE IF joker_not_alone(raw_cards) THEN rejected(g, "joker_not_alone")
        ELSE LET rem == remove_all(g.players[p], raw_cards)
                 g1 == [g EXCEPT !.players[p] = rem.pl,
                                 !.common_pile = pile_add(g.common_pile, rem.played)]
                 g2 == means_step(g1, p, opp, rem.played, via_pair)
                 g3 == resolve_burns_if_any(g2, p)
                 g4 == joker_step(g3, opp, rem.played, choice)
             IN  IF ~legal_under_means(g, raw_cards, via_pair)
                 THEN rejected(g1, "illegal_means")
                 ELSE [g |-> g4, result |-> "accepted", played |-> rem.played,
                       burns |-> detect_burns(g2.common_pile),
                       win |-> all_cards_empty(g4.players[p]),
                       status_after_means |-> [i \in {0, 1} |-> g2.players[i].has_status]]

\* GameState.play(player, raw_cards, via_pair); choice is the defender's answer
\* at the block prompt.  The result: the game after the call, the outcome, the
\* cards moved to the pile, the burns found, the win flag, and the two status
\* flags as they stand right after the means step.
play(g, p, raw_cards, via_pair, choice) ==
    LET opp == opponent(g)
        rejected(why) == [g |-> g, result |-> why, played |-> <<>>, burns |-> <<>>,
                          win |-> FALSE,
                          status_after_means |-> [i \in {0, 1} |-> g.players[i].has_status]]
    IN  IF possession_miss(g.players[p], raw_cards) THEN rejected("not_owned")
        ELSE IF joker_not_alone(raw_cards) THEN rejected("joker_not_alone")
        ELSE IF ~legal_under_means(g, raw_cards, via_pair) THEN rejected("illegal_means")
        ELSE LET rem == remove_all(g.players[p], raw_cards)
                 g1 == [g EXCEPT !.players[p] = rem.pl,
                                 !.common_pile = pile_add(g.common_pile, rem.played)]
                 g2 == means_step(g1, p, opp, rem.played, via_pair)
                 g3 == resolve_burns_if_any(g2, p)
                 g4 == joker_step(g3, opp, rem.played, choice)
             IN  [g |-> g4, result |-> "accepted", played |-> rem.played,
                  burns |-> detect_burns(g2.common_pile),
                  win |-> all_cards_empty(g4.players[p]),
                  status_after_means |-> [i \in {0, 1} |-> g2.players[i].has_status]]

\* pickup that also drops the player's personal pile
pickup_clears_personal(g) ==
    IF g.common_pile = <<>> THEN [g |-> g, result |-> "nothing"]
    ELSE [g |-> [g EXCEPT !.players[g.current_idx] =
                              [take_pile_into_hand(@, g.common_pile) EXCEPT !.personal_pile = <<>>],
                          !.common_pile = <<>>],
          result |-> "picked"]

\* process_command, "pickup": [g, result]
pickup(g) ==
    IF g.common_pile = <<>> THEN [g |-> g, result |-> "nothing"]
    ELSE [g |-> [g EXCEPT !.players[g.current_idx] = take_pile_into_hand(@, g.common_pile),
                          !.common_pile = <<>>],
          result |-> "picked"]

(***************************************************************************)
(* The program state: the fields of GameState and of its two Players, the  *)
(* position of run_base_game's loop, and a record of the last command.     *)
(***************************************************************************)
VARIABLES
    players,       \* players[i]: [hand, face_up, face_down, personal_pile, has_status]
    current_idx,
    common_pile,   \* CommonPile.cards, bottom first, top last
    means_active,
    means_limit,
    first_burn,
    status_rank,
    pc,            \* "prompt": at input(); "post": process_command returned; "over"
    ncmd,          \* number of commands processed so far
    npick,         \* number of pickup commands among them
    pre,           \* the game as it was when the last command was issued
    last,          \* the last command, its inputs and what it returned
    eight_run      \* history: the current run of single effective-Eight plays

\* game_full_v_2.py: the fields of its GameState and Players, and a record of
\* the last call made on it
VARIABLES
    v2_players,      \* v2_players[i]: the Player record of game_full_v_2
    v2_current_idx,
    v2_common_pile,  \* CommonPile.cards, bottom first, top last
    v2_first_burn,
    v2_status_rank,
    v2_offenses,     \* the queue of Joker offenses: records [att, str, res]
    v2_interactive,
    v2_next_id,      \* the identity the next constructed Card object gets
    v2_ncall,        \* number of calls made so far
    v2_pre,          \* the game as it was when the last call was made
    v2_last          \* the last call, its inputs and what it returned

\* CardsGameEngine1.py: one CommonPile object and a record of the last call on it
VARIABLES
    pile_cards,      \* CommonPile.cards, top first
    pile_pre,        \* the cards before the last call
    pile_last        \* the last call, its argument and what it returned

\* the arguments and the outcome of a call of a constructor or a pure function
VARIABLES
    ctor_args,       \* [rank, suit, card_type] handed to Card(...)
    ctor_result,     \* what each Card.__init__ did with them
    rank_args,       \* the two ranks handed to effective_rank
    rank_result      \* the two values returned

\* the arguments and the outcome of a call of Player.replenish and of
\* Player.remove_from_zones
VARIABLES
    repl_args,       \* [hand, personal_pile, has_status] of the player
    repl_result,     \* the player of each engine after each call made so far
    zone_args,       \* [pl, card]: the CardBaseGame player and the card asked for
    zone_result      \* <<>>, or <<[ok, pl]>> once remove_from_zones returned

\* CardsGameEngine1.py: one Player object, the cards it was handed, the red
\* deck and a record of the last call
VARIABLES
    e1_player,       \* the Player
    e1_just_acquired,\* Card.just_acquired of every card object
    e1_red_deck,     \* Deck.cards of the red deck, front first
    e1_ncall,        \* calls made so far
    e1_pre,          \* player, flags and deck before the last call
    e1_last          \* the last call, its arguments and what it returned

base_vars == <<players, current_idx, common_pile, means_active, means_limit, first_burn,
               status_rank, pc, ncmd, npick, pre, last, eight_run>>

v2_vars == <<v2_players, v2_current_idx, v2_common_pile, v2_first_burn, v2_status_rank,
             v2_offenses, v2_interactive, v2_next_id, v2_ncall, v2_pre, v2_last>>

pile_vars == <<pile_cards, pile_pre, pile_last>>

unit_vars == <<ctor_args, ctor_result, rank_args, rank_result,
               repl_args, repl_result, zone_args, zone_result>>

slot_vars == <<e1_player, e1_just_acquired, e1_red_deck, e1_ncall, e1_pre, e1_last>>

vars == <<base_vars, v2_vars, pile_vars, unit_vars, slot_vars>>

\* the record of "no call yet" on the game_full_v_2 game
V2NoCall ==
    [op |-> "none", player |-> 0, cs |-> <<>>, pair |-> FALSE, result |-> "none",
     win |-> FALSE, trace |-> <<>>]

\* no game_full_v_2 game has been set up
V2AtRest ==
    /\ v2_players = <<>>
    /\ v2_current_idx = 0
    /\ v2_common_pile = <<>>
    /\ v2_first_burn = FALSE
    /\ v2_status_rank = None
    /\ v2_offenses = <<>>
    /\ v2_interactive = FALSE
    /\ v2_next_id = 0
    /\ v2_ncall = 0
    /\ v2_pre = <<>>
    /\ v2_last = V2NoCall

\* the record of "no call yet" on the CommonPile object
PileNoCall == [op |-> "none", arg |-> <<>>, ret |-> <<>>]

\* no CardsGameEngine1 pile is in use
PileAtRest ==
    /\ pile_cards = <<>>
    /\ pile_pre = <<>>
    /\ pile_last = PileNoCall

\* no constructor call is being looked at
CtorAtRest ==
    /\ ctor_args = [rank |-> None, suit |-> NoSuit, card_type |-> "NORMAL"]
    /\ ctor_result = [engine1 |-> "pending", v2 |-> "pending"]

\* no effective_rank call is being looked at
RankAtRest ==
    /\ rank_args = <<TWO, TWO>>
    /\ rank_result = <<None, None>>

\* no replenish call is being looked at
ReplAtRest ==
    /\ repl_args = [hand |-> <<>>, personal_pile |-> <<>>, has_status |-> FALSE]
    /\ repl_result = [engine1 |-> <<>>, base |-> <<>>]

\* no remove_from_zones call is being looked at
ZoneAtRest ==
    /\ zone_args = <<>>
    /\ zone_result = <<>>

UnitAtRest == CtorAtRest /\ RankAtRest /\ ReplAtRest /\ ZoneAtRest

\* the record of "no call yet" on the CardsGameEngine1 player
SlotNoCall == [op |-> "none", slot |-> 0, card |-> None, which |-> "none", ret |-> <<>>]

\* no CardsGameEngine1 player is in use
SlotAtRest ==
    /\ e1_player = <<>>
    /\ e1_just_acquired = <<>>
    /\ e1_red_deck = <<>>
    /\ e1_ncall = 0
    /\ e1_pre = <<>>
    /\ e1_last = SlotNoCall

\* no CardBaseGame session is running
BaseAtRest ==
    /\ players = <<>>
    /\ current_idx = 0
    /\ common_pile = <<>>
    /\ means_active = FALSE
    /\ means_limit = None
    /\ first_burn = FALSE
    /\ status_rank = None
    /\ pc = "idle"
    /\ ncmd = 0
    /\ npick = 0
    /\ pre = <<>>
    /\ last = <<>>
    /\ eight_run = [n |-> 0, who |-> 0]

\* longest card list of a play command
MaxPlayLen == 2
\* number of commands of a session
MaxCommands == 3

\* the GameState record of the current state
Game ==
    [players |-> players, current_idx |-> current_idx, common_pile |-> common_pile,
     means_active |-> means_active, means_limit |-> means_limit,
     first_burn |-> first_burn, status_rank |-> status_rank]

\* Player.__init__, with the zones as dealt
new_player(hand, face_up, face_down, personal_pile) ==
    [hand |-> hand, face_up |-> face_up, face_down |-> face_down,
     personal_pile |-> personal_pile, has_status |-> FALSE]

\* the deals the sessions start from: each is what deal_base_game and the first
\* replenish leave (a hand below the limit only with an empty personal pile),
\* cut down to a few cards of the two-deck common deck
Deals ==
    { \* fives of both decks, a Seven, a Four and a Three
      [i \in {0, 1} |->
         IF i = 0 THEN new_player(<<Card(FIVE, "S"), Card(FIVE, "S"), Card(SEVEN, "S")>>,
                                  <<Card(FOUR, "S")>>, <<>>, <<>>)
                  ELSE new_player(<<Card(FIVE, "H"), Card(FIVE, "H"), Card(THREE, "H")>>,
                                  <<>>, <<Card(A, "S")>>, <<>>)],
      \* a Joker, a Four, sixes, a Two and a personal pile
      [i \in {0, 1} |->
         IF i = 0 THEN new_player(<<JK, Card(FOUR, "S"), Card(SIX, "S"), Card(SIX, "S")>>,
                                  <<>>, <<>>, <<Card(THREE, "S")>>)
                  ELSE new_player(<<Card(SIX, "H"), Card(TWO, "H")>>, <<>>, <<>>, <<>>)] }

\* the card lists parse_cards_arg hands to play in these sessions: every list,
\* up to MaxPlayLen long (the empty one is "play ,"), of the cards the current
\* player can play and of one card the player does not hold
CardLists(g) ==
    LET pl == g.players[g.current_idx]
        own == {pl.hand[i] : i \in 1..Len(pl.hand)} \cup {pl.face_up[i] : i \in 1..Len(pl.face_up)}
        opp == g.players[1 - g.current_idx]
        foreign == IF opp.hand # <<>> THEN {opp.hand[1]} ELSE {}
    IN  UNION {[1..n -> own \cup foreign] : n \in 0..MaxPlayLen}

NoCmd ==
    [cmd |-> "none", player |-> 0, raw_cards |-> <<>>, via_pair |-> FALSE, choice |-> "no",
     result |-> "none", played |-> <<>>, burns |-> <<>>, win |-> FALSE,
     status_after_means |-> [i \in {0, 1} |-> FALSE]]

\* GameState.__init__ after deal_base_game and the random choice of the starter
Init ==
    /\ players \in Deals
    /\ current_idx \in {0, 1}
    /\ common_pile = <<>>
    /\ means_active = FALSE
    /\ means_limit = None
    /\ first_burn = FALSE
    /\ status_rank = None
    /\ pc = "prompt"
    /\ ncmd = 0
    /\ npick = 0
    /\ pre = Game
    /\ last = NoCmd
    /\ eight_run = [n |-> 0, who |-> 0]
    /\ V2AtRest /\ PileAtRest /\ UnitAtRest /\ SlotAtRest

Install(g) ==
    /\ players' = g.players
    /\ current_idx' = g.current_idx
    /\ common_pile' = g.common_pile
    /\ means_active' = g.means_active
    /\ means_limit' = g.means_limit
    /\ first_burn' = g.first_burn
    /\ status_rank' = g.status_rank

\* a single card of effective rank Eight
single_eight(cards) ==
    Len(cards) = 1 /\ cards[1].type = "NORMAL" /\ cards[1].rank \in {EIGHT, NINE}

\* the run of successive accepted single effective-Eight plays by alternating
\* players that started on an empty pile: its length after this play
next_eight_run(g, p, r) ==
    IF r.result # "accepted" THEN eight_run
    ELSE IF ~single_eight(r.played) THEN [n |-> 0, who |-> p]
    ELSE IF g.common_pile = <<>> THEN [n |-> 1, who |-> p]
    ELSE IF eight_run.n \in 1..3 /\ eight_run.who # p THEN [n |-> eight_run.n + 1, who |-> p]
    ELSE [n |-> 0, who |-> p]

\* whether play reaches the input() of the block prompt
block_prompted(g, p, raw_cards, via_pair) ==
    LET r == play(g, p, raw_cards, via_pair, "no")
    IN  /\ r.result = "accepted"
        /\ r.played # <<>>
        /\ is_joker(r.played[Len(r.played)])
        /\ has_block_piece(g.players[opponent(g)])

\* the answers that can be given during this play: one of BlockChoices when
\* the prompt is reached, none ("no") when it is not
choices_for(g, p, raw_cards, via_pair) ==
    IF block_prompted(g, p, raw_cards, via_pair) THEN BlockChoices ELSE {"no"}

\* process_command, "play": parse_cards_arg yields (raw_cards, via_pair), then
\* GameState.play for the current player; the session is cut after cap commands
PlayWith(lists, flags, cap) ==
    /\ pc = "prompt"
    /\ ncmd < cap
    /\ \E raw_cards \in lists, via_pair \in flags :
        \E choice \in choices_for(Game, current_idx, raw_cards, via_pair) :
            LET r == play(Game, current_idx, raw_cards, via_pair, choice)
            IN  /\ Install(r.g)
                /\ pre' = Game
                /\ last' = [cmd |-> "play", player |-> current_idx, raw_cards |-> raw_cards,
                            via_pair |-> via_pair, choice |-> choice, result |-> r.result,
                            played |-> r.played, burns |-> r.burns, win |-> r.win,
                            status_after_means |-> r.status_after_means]
                /\ eight_run' = next_eight_run(Game, current_idx, r)
    /\ pc' = "post"
    /\ ncmd' = ncmd + 1
    /\ npick' = npick
    /\ UNCHANGED <<v2_vars, pile_vars, unit_vars, slot_vars>>

\* process_command, "pickup"
PickupWith(cap, pickups) ==
    /\ pc = "prompt"
    /\ ncmd < cap
    /\ npick < pickups
    /\ LET r == pickup(Game)
       IN  /\ Install(r.g)
           /\ last' = [NoCmd EXCEPT !.cmd = "pickup", !.player = current_idx,
                                    !.result = r.result]
    /\ pre' = Game
    /\ eight_run' = [n |-> 0, who |-> current_idx]
    /\ pc' = "post"
    /\ ncmd' = ncmd + 1
    /\ npick' = npick + 1
    /\ UNCHANGED <<v2_vars, pile_vars, unit_vars, slot_vars>>

PlayCmd == PlayWith(CardLists(Game), BOOLEAN, MaxCommands)

PickupCmd == PickupWith(MaxCommands, MaxCommands)

\* run_base_game, after a command without a win flag: replenish the current
\* player, then pass the turn
EndTurn ==
    /\ pc = "post"
    /\ ~last.win
    /\ players' = [players EXCEPT ![current_idx] = replenish(@)]
    /\ current_idx' = 1 - current_idx
    /\ pc' = "prompt"
    /\ pre' = [Game EXCEPT !.players = players', !.current_idx = current_idx']
    /\ last' = NoCmd
    /\ UNCHANGED <<common_pile, means_active, means_limit, first_burn, status_rank,
                   ncmd, npick, eight_run>>
    /\ UNCHANGED <<v2_vars, pile_vars, unit_vars, slot_vars>>

\* run_base_game, "if flag: ... break"
GameOver ==
    /\ pc = "post"
    /\ last.win
    /\ pc' = "over"
    /\ UNCHANGED <<players, current_idx, common_pile, means_active, means_limit,
                   first_burn, status_rank, ncmd, npick, pre, last, eight_run>>
    /\ UNCHANGED <<v2_vars, pile_vars, unit_vars, slot_vars>>

Next == PlayCmd \/ PickupCmd \/ EndTurn \/ GameOver

Spec == Init /\ [][Next]_vars

(***************************************************************************)
(* Sessions in which every play command names one card: long enough for    *)
(* two burns in a row.                                                     *)
(***************************************************************************)
\* number of commands of a one-card session
MaxRunCommands == 9
\* number of pickup commands among them
MaxRunPickups == 1

RunDeals ==
    { \* kings, eights and nines of both decks, and a Five
      [i \in {0, 1} |->
         IF i = 0 THEN new_player(<<Card(K, "S"), Card(K, "S"), Card(EIGHT, "S"), Card(EIGHT, "S")>>,
                                  <<Card(FIVE, "S")>>, <<>>, <<>>)
                  ELSE new_player(<<Card(K, "H"), Card(K, "H"), Card(NINE, "H"), Card(NINE, "H")>>,
                                  <<>>, <<>>, <<>>)] }

SingleLists(g) == {l \in CardLists(g) : Len(l) = 1}

RunInit ==
    /\ players \in RunDeals
    /\ current_idx \in {0, 1}
    /\ common_pile = <<>>
    /\ means_active = FALSE
    /\ means_limit = None
    /\ first_burn = FALSE
    /\ status_rank = None
    /\ pc = "prompt"
    /\ ncmd = 0
    /\ npick = 0
    /\ pre = Game
    /\ last = NoCmd
    /\ eight_run = [n |-> 0, who |-> 0]
    /\ V2AtRest /\ PileAtRest /\ UnitAtRest /\ SlotAtRest

RunPlayCmd == PlayWith(SingleLists(Game), {FALSE}, MaxRunCommands)

RunPickupCmd == PickupWith(MaxRunCommands, MaxRunPickups)

RunNext == RunPlayCmd \/ RunPickupCmd \/ EndTurn \/ GameOver

RunSpec == RunInit /\ [][RunNext]_vars

(***************************************************************************)
(* game_full_v_2.py.  Its Card defines no __eq__, so "c in hand" and       *)
(* hand.remove(c) compare objects: a card carries the identity of its      *)
(* object in the field id, and two cards are the same exactly when their   *)
(* ids are.  A Player is a record [hand, face_up, face_down,               *)
(* emergency_red, emergency_blue, personal_pile, status_token,             *)
(* has_status_ability, can_replenish_full, emergency_actions]; a GameState *)
(* is a record s = [players, current_idx, common_pile, first_burn,         *)
(* status_rank, offenses, interactive, next_id].                           *)
(***************************************************************************)
\* Card.__init__ of game_full_v_2: stores what it is given, checks nothing
v2_Card(id, rank, suit, card_type) ==
    [id |-> id, type |-> card_type, rank |-> rank, suit |-> suit, just_acquired |-> FALSE]

\* "c in zone" with the default (identity) equality
v2_in(c, zone) == \E i \in 1..Len(zone) : zone[i].id = c.id

\* zone.remove(c): drop the first element that is the object c
v2_remove(zone, c) ==
    pop_at(zone, CHOOSE i \in 1..Len(zone) :
                    zone[i].id = c.id /\ \A k \in 1..(i - 1) : zone[k].id # c.id)

\* CommonPile.detect_burns of game_full_v_2: the same count over the whole pile
v2_detect_burns(cards) == burns_of(cards, counter_keys(cards, {}))

\* Player.__init__, with the zones the caller then fills
v2_new_player(hand, face_up, face_down, personal_pile) ==
    [hand |-> hand, face_up |-> face_up, face_down |-> face_down,
     emergency_red |-> <<>>, emergency_blue |-> <<>>, personal_pile |-> personal_pile,
     status_token |-> None, has_status_ability |-> FALSE, can_replenish_full |-> FALSE,
     emergency_actions |-> [x \in {} |-> [peek |-> TRUE, swap |-> TRUE]]]

\* Player.pickup_common
v2_pickup_common(pl, cs) == [pl EXCEPT !.hand = @ \o cs, !.personal_pile = <<>>]

\* Player.reset_emergency_actions: a fresh ledger, every held card fully allowed
v2_reset_emergency_actions(pl) ==
    LET held == pl.emergency_red \o pl.emergency_blue
    IN  [pl EXCEPT !.emergency_actions =
            [x \in {held[i].id : i \in 1..Len(held)} |-> [peek |-> TRUE, swap |-> TRUE]]]

\* emergency_actions[k] = v
v2_ledger_put(ledger, k, v) ==
    [x \in (DOMAIN ledger) \cup {k} |-> IF x = k THEN v ELSE ledger[x]]

\* GameState.opponent
v2_opponent(s) == 1 - s.current_idx

\* GameState.advance
v2_advance(s) == [s EXCEPT !.current_idx = 1 - @]

\* GameState.set_status
v2_set_status(s, p, r) ==
    IF ~s.first_burn
    THEN [s EXCEPT !.first_burn = TRUE,
                   !.status_rank = r,
                   !.players[p].status_token = r,
                   !.players[p].has_status_ability = TRUE]
    ELSE s

\* transfer_status that leaves the ability with the player it is taken from
v2_transfer_status_keeps_target(s, src, tgt) ==
    IF s.players[tgt].has_status_ability
    THEN [s EXCEPT !.players[src].has_status_ability = TRUE,
                   !.players[src].status_token = s.status_rank]
    ELSE s

\* GameState.transfer_status
v2_transfer_status(s, src, tgt) ==
    IF s.players[tgt].has_status_ability
    THEN LET s1 == [s EXCEPT !.players[tgt].has_status_ability = FALSE,
                             !.players[tgt].status_token = None]
         IN  [s1 EXCEPT !.players[src].has_status_ability = TRUE,
                        !.players[src].status_token = s.status_rank]
    ELSE s

\* a new emergency card of the colour, flagged just_acquired, appended to the
\* player's list of that colour; the ledger is rebuilt and the new card's
\* entry closed (resolve_burns for blue, play for the red of an FRE)
v2_acquire(s, p, colour) ==
    LET nb == [v2_Card(s.next_id, None, NoSuit, colour) EXCEPT !.just_acquired = TRUE]
        s1 == IF colour = "EMERGENCY_RED"
              THEN [s EXCEPT !.players[p].emergency_red = Append(@, nb), !.next_id = @ + 1]
              ELSE [s EXCEPT !.players[p].emergency_blue = Append(@, nb), !.next_id = @ + 1]
        s2 == [s1 EXCEPT !.players[p] = v2_reset_emergency_actions(@)]
    IN  [s2 EXCEPT !.players[p].emergency_actions =
                       v2_ledger_put(@, nb.id, [peek |-> FALSE, swap |-> FALSE])]

\* the body of emergency_prompt's loop for card c; ans: the player types "y"
v2_prompt_card(s, p, c, ans) ==
    LET ledger == s.players[p].emergency_actions
        known == c.id \in DOMAIN ledger
        av_peek == known /\ ledger[c.id].peek
        av_swap == known /\ ledger[c.id].swap
        s1 == IF av_peek /\ s.interactive /\ ans
              THEN [s EXCEPT !.players[p].emergency_actions[c.id].peek = FALSE]
              ELSE s
        new == [v2_Card(s1.next_id, None, NoSuit, c.type) EXCEPT !.just_acquired = TRUE]
        swap_in(zone) == [i \in 1..Len(zone) |-> IF zone[i].id = c.id THEN new ELSE zone[i]]
        s2 == IF av_swap /\ s.interactive /\ ans
              THEN [s1 EXCEPT !.players[p].emergency_red =
                                  IF c.type = "EMERGENCY_RED" THEN swap_in(@) ELSE @,
                              !.players[p].emergency_blue =
                                  IF c.type = "EMERGENCY_RED" THEN @ ELSE swap_in(@),
                              !.players[p].emergency_actions[c.id].swap = FALSE,
                              !.next_id = @ + 1]
              ELSE s1
    IN  IF c.just_acquired THEN s ELSE s2

\* "for c in p.emergency_red+p.emergency_blue"
RECURSIVE v2_prompt_loop(_, _, _, _)
v2_prompt_loop(s, p, todo, ans) ==
    IF todo = <<>> THEN s
    ELSE v2_prompt_loop(v2_prompt_card(s, p, Head(todo), ans), p, Tail(todo), ans)

\* GameState.emergency_prompt
v2_emergency_prompt(s, p, ans) ==
    v2_prompt_loop(s, p, s.players[p].emergency_red \o s.players[p].emergency_blue, ans)

\* the body of the loops of resolve_burns, for one burn set
v2_burn_once(s, p, r, ans) ==
    LET s1 == v2_set_status(s, p, r)
        s2 == [s1 EXCEPT !.common_pile = <<>>]
        s3 == v2_acquire(s2, p, "EMERGENCY_BLUE")
    IN  v2_emergency_prompt(s3, p, ans)

\* "for i in range(b[r])"
RECURSIVE v2_burn_times(_, _, _, _, _)
v2_burn_times(s, p, r, count, ans) ==
    IF count = 0 THEN s ELSE v2_burn_times(v2_burn_once(s, p, r, ans), p, r, count - 1, ans)

\* "for r in order"
RECURSIVE v2_burn_loop(_, _, _, _)
v2_burn_loop(s, p, order, ans) ==
    IF order = <<>> THEN s
    ELSE v2_burn_loop(v2_burn_times(s, p, Head(order).rank, Head(order).count, ans),
                      p, Tail(order), ans)

\* the order after the prompt "order?": the burns whose rank the player named,
\* in the order of the dict, or all of them when none was named
v2_burn_order(s, burns, picks) ==
    LET named(b) == b.rank \in picks
    IN  IF s.interactive /\ Len(burns) > 1 /\ SelectSeq(burns, named) # <<>>
        THEN SelectSeq(burns, named)
        ELSE burns

\* GameState.resolve_burns
v2_resolve_burns(s, p, picks, ans) ==
    LET burns == v2_detect_burns(s.common_pile)
    IN  IF burns = <<>> THEN s
        ELSE v2_burn_loop(s, p, v2_burn_order(s, burns, picks), ans)

\* play: "for c in cs: if c in pl.hand: pl.hand.remove(c)"
RECURSIVE v2_remove_played(_, _)
v2_remove_played(hand, cs) ==
    IF cs = <<>> THEN hand
    ELSE v2_remove_played(IF v2_in(Head(cs), hand) THEN v2_remove(hand, Head(cs)) ELSE hand,
                          Tail(cs))

\* play: every FRE among the cards grants a red emergency card
RECURSIVE v2_fre_loop(_, _, _)
v2_fre_loop(s, p, cs) ==
    IF cs = <<>> THEN s
    ELSE v2_fre_loop(IF Head(cs).type = "FRE" THEN v2_acquire(s, p, "EMERGENCY_RED") ELSE s,
                     p, Tail(cs))

\* play: every PFJ among the cards moves the opponent's personal pile, if any,
\* to the end of the player's
RECURSIVE v2_pfj_loop(_, _, _, _)
v2_pfj_loop(s, p, opp, cs) ==
    IF cs = <<>> THEN s
    ELSE LET steal == Head(cs).type = "PFJ" /\ s.players[opp].personal_pile # <<>>
             s1 == IF steal
                   THEN [s EXCEPT !.players[p].personal_pile = @ \o s.players[opp].personal_pile,
                                  !.players[opp].personal_pile = <<>>]
                   ELSE s
         IN  v2_pfj_loop(s1, p, opp, Tail(cs))

\* play: a Five or a Seven among the cards
v2_m5(cs) == \E i \in 1..Len(cs) : is_normal(cs[i]) /\ cs[i].rank \in {FIVE, SEVEN}

\* play: the number of Jokers among the cards
v2_jks(cs) == Cardinality({i \in 1..Len(cs) : cs[i].type = "JOKER"})

\* GameState.play(pl, cs, pair); picks and ans are what the player types at the
\* prompts of resolve_burns.  The result: the game after the call and the win flag.
v2_play(s, p, cs, pair, picks, ans) ==
    LET opp == v2_opponent(s)
        s1 == [s EXCEPT !.players[p].hand = v2_remove_played(@, cs)]
        s2 == v2_fre_loop(s1, p, cs)
        s3 == IF v2_m5(cs) /\ s2.players[opp].has_status_ability
              THEN v2_transfer_status(s2, p, opp) ELSE s2
        s4 == IF v2_m5(cs)
              THEN [[s3 EXCEPT !.players[opp].can_replenish_full = TRUE]
                        EXCEPT !.players[p].can_replenish_full = TRUE]
              ELSE s3
        s5 == IF pair THEN [s4 EXCEPT !.players[p].can_replenish_full = FALSE] ELSE s4
        s6 == [s5 EXCEPT !.common_pile = @ \o cs]
        s7 == IF Len(cs) = 1 /\ is_normal(cs[1]) /\ cs[1].rank = TEN
              THEN [s6 EXCEPT !.common_pile = <<>>] ELSE s6
        s8 == v2_pfj_loop(s7, p, opp, cs)
        s9 == IF v2_jks(cs) > 0
              THEN [s8 EXCEPT !.offenses = Append(@, [att |-> p, str |-> v2_jks(cs), res |-> FALSE])]
              ELSE s8
        s10 == v2_resolve_burns(s9, p, picks, ans)
        pl == s10.players[p]
    IN  [s |-> s10,
         win |-> (pl.hand = <<>> /\ pl.face_up = <<>> /\ pl.face_down = <<>>
                  /\ pl.personal_pile = <<>>)]

\* resolve_offenses: a card that can block (Joker, normal Four, PFJ)
v2_qualifies(c) == c.type = "JOKER" \/ (is_normal(c) /\ c.rank = FOUR) \/ c.type = "PFJ"

\* resolve_offenses, first loop: the qualifying cards of the hand, in hand
\* order, until req of them are found
RECURSIVE v2_used(_, _)
v2_used(hand, req) ==
    IF hand = <<>> \/ req <= 0 THEN <<>>
    ELSE IF v2_qualifies(Head(hand)) THEN <<Head(hand)>> \o v2_used(Tail(hand), req - 1)
    ELSE v2_used(Tail(hand), req)

\* resolve_offenses, second loop: remove the used cards, at most need of them
RECURSIVE v2_consume(_, _, _)
v2_consume(hand, used, need) ==
    IF used = <<>> \/ need <= 0 THEN hand
    ELSE IF v2_in(Head(used), hand)
    THEN v2_consume(v2_remove(hand, Head(used)), Tail(used), need - 1)
    ELSE v2_consume(hand, Tail(used), need)

\* v2_resolve_one that spends the blocking cards it found even when they are
\* too few, before the pile is picked up
v2_resolve_one_blocks_partly(s, a) ==
    LET df == v2_opponent(s)
        used == v2_used(s.players[df].hand, a.str)
        s1 == [s EXCEPT !.players[df].hand = v2_consume(@, used, a.str)]
    IN  IF Len(used) >= a.str THEN s1
        ELSE [s1 EXCEPT !.players[df] = v2_pickup_common(@, s.common_pile),
                        !.common_pile = <<>>]

\* resolve_offenses, the body of the loop for one offense a
v2_resolve_one(s, a) ==
    LET df == v2_opponent(s)
        used == v2_used(s.players[df].hand, a.str)
    IN  IF Len(used) >= a.str
        THEN [s EXCEPT !.players[df].hand = v2_consume(@, used, a.str)]
        ELSE [s EXCEPT !.players[df] = v2_pickup_common(@, s.common_pile),
                       !.common_pile = <<>>]

\* "for a in list(self.offenses)": the game after each offense of the queue,
\* with a record of what each resolution found and left
RECURSIVE v2_offense_loop(_, _)
v2_offense_loop(s, todo) ==
    IF todo = <<>> THEN [s |-> s, trace |-> <<>>]
    ELSE LET a == Head(todo)
             df == v2_opponent(s)
             s1 == IF a.res THEN s ELSE v2_resolve_one(s, a)
             rest == v2_offense_loop(s1, Tail(todo))
         IN  [s |-> rest.s,
              trace |-> (IF a.res THEN <<>>
                         ELSE <<[str |-> a.str, defender |-> df,
                                 before |-> s.players[df], pile_before |-> s.common_pile,
                                 after |-> s1.players[df], pile_after |-> s1.common_pile]>>)
                        \o rest.trace]

\* GameState.resolve_offenses: every offense ends with res set, and the queue
\* keeps the offenses whose res is not set
v2_resolve_offenses(s) ==
    LET r == v2_offense_loop(s, s.offenses)
    IN  [s |-> [r.s EXCEPT !.offenses = <<>>], trace |-> r.trace]

\* parse_card: a new Card object for each token, whatever the hand holds
v2_parse_card(tok, id) == v2_Card(id, tok.rank, tok.suit, tok.type)

\* process_command, "play": the cards of all tokens, in order
RECURSIVE v2_parse_tokens(_, _)
v2_parse_tokens(tokens, id) ==
    IF tokens = <<>> THEN <<>>
    ELSE [i \in 1..Len(Head(tokens)) |-> v2_parse_card(Head(tokens)[i], id + i - 1)]
         \o v2_parse_tokens(Tail(tokens), id + Len(Head(tokens)))

\* process_command, "play": a token with "+" that holds a Three and whose
\* normal cards share one suit sets the pair flag
v2_pair_flag(tokens) ==
    \E t \in 1..Len(tokens) :
        LET ps == tokens[t]
            normals == {i \in 1..Len(ps) : ps[i].type = "NORMAL"}
        IN  /\ Len(ps) > 1
            /\ \E i \in normals : ps[i].rank = THREE
            /\ Cardinality({ps[i].suit : i \in normals}) = 1

\* what process_command does after play or burn: the queued offenses are
\* resolved and the turn passes unless the play won
v2_after_play(r) ==
    LET o == v2_resolve_offenses(r.s)
    IN  [s |-> IF r.win THEN o.s ELSE v2_advance(o.s), result |-> "played",
         win |-> r.win, trace |-> o.trace]

\* process_command, "play <tokens>"
v2_command_play(s, tokens, picks, ans) ==
    LET pl == s.current_idx
        cs == v2_parse_tokens(tokens, s.next_id)
        pair == v2_pair_flag(tokens)
    IN  IF \E i \in 1..Len(cs) : ~v2_in(cs[i], s.players[pl].hand)
        THEN [s |-> s, result |-> "no_card", win |-> FALSE, trace |-> <<>>, cs |-> cs]
        ELSE [cs |-> cs] @@
             v2_after_play(v2_play([s EXCEPT !.next_id = @ + Len(cs)], pl, cs, pair, picks, ans))

\* process_command, "burn,<rank>x<count>": count new cards of the rank
v2_command_burn(s, r, suits, picks, ans) ==
    LET pl == s.current_idx
        cs == [i \in 1..Len(suits) |-> v2_Card(s.next_id + i - 1, r, suits[i], "NORMAL")]
    IN  [cs |-> cs] @@
        v2_after_play(v2_play([s EXCEPT !.next_id = @ + Len(cs)], pl, cs, FALSE, picks, ans))

\* process_command, "pickup"
v2_command_pickup(s) ==
    IF s.common_pile = <<>>
    THEN [s |-> s, result |-> "none", win |-> FALSE, trace |-> <<>>, cs |-> <<>>]
    ELSE [s |-> [s EXCEPT !.players[s.current_idx] = v2_pickup_common(@, s.common_pile),
                          !.common_pile = <<>>],
          result |-> "picked", win |-> FALSE, trace |-> <<>>, cs |-> <<>>]

(***************************************************************************)
(* Calls on a game_full_v_2 game: GameState.play, resolve_offenses and     *)
(* advance called directly, and the commands of process_command.  The file *)
(* has no dealing code: the caller fills the players' zones.               *)
(***************************************************************************)
\* longest card list handed to GameState.play directly
MaxV2PlayLen == 2
\* number of calls made on the game
MaxV2Calls == 3
\* largest count of a burn command
MaxBurnCards == 4
\* number of tokens after "play" in a command
MaxV2Tokens == 1

\* the GameState record of the current state
V2Game ==
    [players |-> v2_players, current_idx |-> v2_current_idx, common_pile |-> v2_common_pile,
     first_burn |-> v2_first_burn, status_rank |-> v2_status_rank, offenses |-> v2_offenses,
     interactive |-> v2_interactive, next_id |-> v2_next_id]

V2Install(s) ==
    /\ v2_players' = s.players
    /\ v2_current_idx' = s.current_idx
    /\ v2_common_pile' = s.common_pile
    /\ v2_first_burn' = s.first_burn
    /\ v2_status_rank' = s.status_rank
    /\ v2_offenses' = s.offenses
    /\ v2_interactive' = s.interactive
    /\ v2_next_id' = s.next_id

\* the zones the caller gives the two players; every card is its own object
V2Deals ==
    { \* two Jokers against Fours and a PFJ
      [i \in {0, 1} |->
         IF i = 0 THEN v2_new_player(<<v2_Card(1, None, NoSuit, "JOKER"),
                                       v2_Card(2, None, NoSuit, "JOKER"),
                                       v2_Card(3, FIVE, "S", "NORMAL")>>,
                                     <<>>, <<>>, <<v2_Card(4, SIX, "S", "NORMAL")>>)
                  ELSE v2_new_player(<<v2_Card(5, FOUR, "H", "NORMAL"),
                                       v2_Card(6, SIX, "H", "NORMAL"),
                                       v2_Card(7, None, NoSuit, "PFJ"),
                                       v2_Card(8, FOUR, "S", "NORMAL")>>,
                                     <<v2_Card(9, K, "H", "NORMAL")>>, <<>>,
                                     <<v2_Card(10, SEVEN, "H", "NORMAL")>>)],
      \* two Jokers and nothing else against one Four
      [i \in {0, 1} |->
         IF i = 0 THEN v2_new_player(<<v2_Card(1, None, NoSuit, "JOKER"),
                                       v2_Card(2, None, NoSuit, "JOKER")>>,
                                     <<>>, <<>>, <<>>)
                  ELSE v2_new_player(<<v2_Card(3, FOUR, "H", "NORMAL"),
                                       v2_Card(4, FIVE, "H", "NORMAL"),
                                       v2_Card(5, None, NoSuit, "FRE")>>,
                                     <<>>, <<>>, <<v2_Card(6, NINE, "H", "NORMAL")>>)] }

\* GameState.__init__ over the players as the caller set them up
V2Init ==
    /\ v2_players \in V2Deals
    /\ v2_current_idx = 0
    /\ v2_common_pile = <<>>
    /\ v2_first_burn = FALSE
    /\ v2_status_rank = None
    /\ v2_offenses = <<>>
    /\ v2_interactive = TRUE
    /\ v2_next_id = 20
    /\ v2_ncall = 0
    /\ v2_pre = V2Game
    /\ v2_last = V2NoCall
    /\ BaseAtRest /\ PileAtRest /\ UnitAtRest /\ SlotAtRest

\* the card objects a caller hands to play: no card, one hand card, one card of
\* the other player, the first hand card twice, or up to MaxV2PlayLen hand
\* cards in hand order
V2CardLists(s) ==
    LET pl == s.players[s.current_idx]
        opp == s.players[1 - s.current_idx]
        picked(idx) == [k \in 1..Len(idx) |-> pl.hand[idx[k]]]
        rising == {idx \in UNION {[1..n -> 1..Len(pl.hand)] : n \in 0..MaxV2PlayLen} :
                      \A k \in 1..(Len(idx) - 1) : idx[k] < idx[k + 1]}
    IN  {picked(idx) : idx \in rising}
        \cup (IF opp.hand # <<>> THEN {<<opp.hand[1]>>} ELSE {})
        \cup (IF pl.hand # <<>> THEN {<<pl.hand[1], pl.hand[1]>>} ELSE {})

\* what a card token of a command says: kind, rank and suit
v2_token_of(c) == [type |-> c.type, rank |-> c.rank, suit |-> c.suit]

\* the token lists typed after "play", up to MaxV2Tokens tokens: a token names
\* one card the current player holds, or one card of the other player, or the
\* player's first two hand cards joined by "+"
V2TokenLists(s) ==
    LET pl == s.players[s.current_idx]
        opp == s.players[1 - s.current_idx]
        token == {<<v2_token_of(pl.hand[i])>> : i \in 1..Len(pl.hand)}
                 \cup (IF opp.hand # <<>> THEN {<<v2_token_of(opp.hand[1])>>} ELSE {})
                 \cup (IF Len(pl.hand) >= 2
                       THEN {<<v2_token_of(pl.hand[1]), v2_token_of(pl.hand[2])>>} ELSE {})
    IN  UNION {[1..n -> token] : n \in 0..MaxV2Tokens}

\* what a player can name at the prompt "order?", which resolve_burns reaches
\* when the pile with the cards played holds burns of several ranks
V2Picks(s, cs) ==
    IF s.interactive /\ Len(v2_detect_burns(s.common_pile \o cs)) > 1
    THEN {{}, {K}} ELSE {{}}

\* the answers to the peek and swap prompts, "y" to all or "n" to all, which
\* emergency_prompt reaches for a card that is not flagged just_acquired
V2Answers(s) ==
    LET pl == s.players[s.current_idx]
        held == pl.emergency_red \o pl.emergency_blue
    IN  IF s.interactive /\ \E i \in 1..Len(held) : ~held[i].just_acquired
        THEN BOOLEAN ELSE {FALSE}

\* the pair flags a caller passes with the cards
V2PairFlags(cs) == IF Len(cs) = 2 THEN BOOLEAN ELSE {FALSE}

\* the ranks of the burn commands
V2BurnRanks == {FIVE, K}

\* the suits random.choice draws for the n cards of a burn command
V2BurnSuits(n) == [i \in 1..n |-> IF i % 2 = 1 THEN "S" ELSE "H"]

V2Record(op, cs, pair, r) ==
    /\ V2Install(r.s)
    /\ v2_pre' = V2Game
    /\ v2_last' = [op |-> op, player |-> v2_current_idx, cs |-> cs, pair |-> pair,
                   result |-> r.result, win |-> r.win, trace |-> r.trace]
    /\ v2_ncall' = v2_ncall + 1
    /\ UNCHANGED <<base_vars, pile_vars, unit_vars, slot_vars>>

\* GameState.play called for the current player
V2PlayCall ==
    /\ v2_ncall < MaxV2Calls
    /\ \E cs \in V2CardLists(V2Game) :
        \E pair \in V2PairFlags(cs), picks \in V2Picks(V2Game, cs), ans \in V2Answers(V2Game) :
        LET r == v2_play(V2Game, v2_current_idx, cs, pair, picks, ans)
        IN  V2Record("play", cs, pair, [s |-> r.s, result |-> "played", win |-> r.win,
                                        trace |-> <<>>])

\* GameState.resolve_offenses called
V2ResolveCall ==
    /\ v2_ncall < MaxV2Calls
    /\ LET r == v2_resolve_offenses(V2Game)
       IN  V2Record("resolve_offenses", <<>>, FALSE,
                    [s |-> r.s, result |-> "resolved", win |-> FALSE, trace |-> r.trace])

\* GameState.advance called
V2AdvanceCall ==
    /\ v2_ncall < MaxV2Calls
    /\ V2Record("advance", <<>>, FALSE,
                [s |-> v2_advance(V2Game), result |-> "advanced", win |-> FALSE,
                 trace |-> <<>>])

\* process_command(g, "play ...")
V2PlayCmd ==
    /\ v2_ncall < MaxV2Calls
    /\ \E tokens \in V2TokenLists(V2Game) :
        \E picks \in V2Picks(V2Game, v2_parse_tokens(tokens, v2_next_id)),
           ans \in V2Answers(V2Game) :
        LET r == v2_command_play(V2Game, tokens, picks, ans)
        IN  V2Record("command_play", r.cs, v2_pair_flag(tokens), r)

\* process_command(g, "burn,<rank>x<count>")
V2BurnCmd ==
    /\ v2_ncall < MaxV2Calls
    /\ \E r \in V2BurnRanks, n \in 1..MaxBurnCards :
        \E picks \in V2Picks(V2Game, [i \in 1..n |-> v2_Card(0, r, "S", "NORMAL")]),
           ans \in V2Answers(V2Game) :
            LET res == v2_command_burn(V2Game, r, V2BurnSuits(n), picks, ans)
            IN  V2Record("command_burn", res.cs, FALSE, res)

\* process_command(g, "pickup")
V2PickupCmd ==
    /\ v2_ncall < MaxV2Calls
    /\ V2Record("command_pickup", <<>>, FALSE, v2_command_pickup(V2Game))

V2Next == V2PlayCall \/ V2ResolveCall \/ V2AdvanceCall \/ V2PlayCmd \/ V2BurnCmd \/ V2PickupCmd

V2Spec == V2Init /\ [][V2Next]_vars

(***************************************************************************)
(* CardsGameEngine1.py: Card construction and the CommonPile, whose list   *)
(* keeps the top card first.  A card is a record [type, rank, suit].       *)
(***************************************************************************)
CardTypes == {"NORMAL", "JOKER", "PFJ", "FRE", "EMERGENCY_RED", "EMERGENCY_BLUE"}

\* Card.__init__ of CardsGameEngine1: "ValueError" when the validation raises
e1_Card_init(rank, suit, card_type) ==
    IF card_type = "NORMAL"
    THEN (IF rank = None \/ suit = NoSuit THEN "ValueError" ELSE "ok")
    ELSE IF card_type \in {"EMERGENCY_RED", "EMERGENCY_BLUE"}
    THEN (IF rank = None \/ suit = NoSuit THEN "ValueError" ELSE "ok")
    ELSE (IF rank # None \/ suit # NoSuit THEN "ValueError" ELSE "ok")

\* Card.__init__ of game_full_v_2: four assignments, no check and no raise
v2_Card_init(rank, suit, card_type) == "ok"

\* a card of CardsGameEngine1 that passed the constructor
e1_Card(rank, suit, card_type) == [type |-> card_type, rank |-> rank, suit |-> suit]

\* Card.is_ranked
e1_is_ranked(c) == c.rank # None /\ c.type \notin {"JOKER", "PFJ", "FRE"}

\* reversed(cards)
reversed(cards) == [i \in 1..Len(cards) |-> cards[Len(cards) + 1 - i]]

\* CommonPile.add that inserts the cards in the order given
e1_add_in_order(cards, played) == played \o cards

\* CommonPile.add: "self.cards[:0] = reversed(cards)"
e1_add(cards, played) == reversed(played) \o cards

\* CommonPile.clear without "self.cards = []": the cards are returned and stay
e1_clear_keeps_cards(cards) == [cards |-> cards, ret |-> cards]

\* CommonPile.clear: the pile afterwards and the list returned
e1_clear(cards) == [cards |-> <<>>, ret |-> cards]

\* CommonPile.top: <<card>>, or <<>> for None
e1_top(cards) == IF cards # <<>> THEN <<cards[1]>> ELSE <<>>

\* the loop of detect_burns with a token ending the segment
RECURSIVE e1_scan_token_stops(_, _)
e1_scan_token_stops(cards, acc) ==
    IF cards = <<>> THEN acc
    ELSE LET c == Head(cards)
             er == effective_rank(c.rank)
         IN  IF ~e1_is_ranked(c) THEN acc
             ELSE IF c.rank = TWO
             THEN e1_scan_token_stops(Tail(cards), [acc EXCEPT !.twos = @ + 1])
             ELSE IF c.rank = THREE
             THEN e1_scan_token_stops(Tail(cards), [acc EXCEPT !.threes = @ + 1])
             ELSE IF acc.anchor = None
             THEN e1_scan_token_stops(Tail(cards), [acc EXCEPT !.anchor = er, !.same = 1])
             ELSE IF er = acc.anchor
             THEN e1_scan_token_stops(Tail(cards), [acc EXCEPT !.same = @ + 1])
             ELSE acc

\* the loop of detect_burns with "continue" for "break": a card of another
\* rank is passed over
RECURSIVE e1_scan_passes_over(_, _)
e1_scan_passes_over(cards, acc) ==
    IF cards = <<>> THEN acc
    ELSE LET c == Head(cards)
             er == effective_rank(c.rank)
         IN  IF ~e1_is_ranked(c) THEN e1_scan_passes_over(Tail(cards), acc)
             ELSE IF c.rank = TWO
             THEN e1_scan_passes_over(Tail(cards), [acc EXCEPT !.twos = @ + 1])
             ELSE IF c.rank = THREE
             THEN e1_scan_passes_over(Tail(cards), [acc EXCEPT !.threes = @ + 1])
             ELSE IF acc.anchor = None
             THEN e1_scan_passes_over(Tail(cards), [acc EXCEPT !.anchor = er, !.same = 1])
             ELSE IF er = acc.anchor
             THEN e1_scan_passes_over(Tail(cards), [acc EXCEPT !.same = @ + 1])
             ELSE e1_scan_passes_over(Tail(cards), acc)

\* the loop of detect_burns, top first: acc = [same, twos, threes, anchor]
RECURSIVE e1_scan(_, _)
e1_scan(cards, acc) ==
    IF cards = <<>> THEN acc
    ELSE LET c == Head(cards)
             er == effective_rank(c.rank)
         IN  IF ~e1_is_ranked(c) THEN e1_scan(Tail(cards), acc)
             ELSE IF c.rank = TWO THEN e1_scan(Tail(cards), [acc EXCEPT !.twos = @ + 1])
             ELSE IF c.rank = THREE THEN e1_scan(Tail(cards), [acc EXCEPT !.threes = @ + 1])
             ELSE IF acc.anchor = None
             THEN e1_scan(Tail(cards), [acc EXCEPT !.anchor = er, !.same = 1])
             ELSE IF er = acc.anchor THEN e1_scan(Tail(cards), [acc EXCEPT !.same = @ + 1])
             ELSE acc

\* detect_burns with the three tests chained by "elif": Twos and Threes are
\* reported only when the rank above them is not
e1_detect_burns_first_only(cards) ==
    LET a == e1_scan(cards, [same |-> 0, twos |-> 0, threes |-> 0, anchor |-> None])
    IN  IF a.anchor # None /\ a.same >= 4
        THEN <<[rank |-> a.anchor, count |-> a.same \div 4]>>
        ELSE IF a.twos >= 4 THEN <<[rank |-> TWO, count |-> a.twos \div 4]>>
        ELSE IF a.threes >= 4 THEN <<[rank |-> THREE, count |-> a.threes \div 4]>>
        ELSE <<>>

\* CommonPile.detect_burns of CardsGameEngine1: the dict as a sequence of
\* [rank, count] in insertion order (anchor, Two, Three)
e1_detect_burns(cards) ==
    LET a == e1_scan(cards, [same |-> 0, twos |-> 0, threes |-> 0, anchor |-> None])
    IN  (IF a.anchor # None /\ a.same >= 4
         THEN <<[rank |-> a.anchor, count |-> a.same \div 4]>> ELSE <<>>)
        \o (IF a.twos >= 4 THEN <<[rank |-> TWO, count |-> a.twos \div 4]>> ELSE <<>>)
        \o (IF a.threes >= 4 THEN <<[rank |-> THREE, count |-> a.threes \div 4]>> ELSE <<>>)

(***************************************************************************)
(* Calls on one CommonPile of CardsGameEngine1                             *)
(***************************************************************************)
\* most cards the pile is let grow to
MaxPileLen == 6
\* longest list handed to add
MaxAddLen == 2

\* the cards handed to add
PileCards ==
    {e1_Card(EIGHT, "S", "NORMAL"), e1_Card(NINE, "H", "NORMAL"), e1_Card(FIVE, "S", "NORMAL"),
     e1_Card(TWO, "S", "NORMAL"), e1_Card(THREE, "S", "NORMAL"),
     e1_Card(None, NoSuit, "JOKER")}

\* CommonPile.__init__
PileInit ==
    /\ pile_cards = <<>>
    /\ pile_pre = <<>>
    /\ pile_last = PileNoCall
    /\ BaseAtRest /\ V2AtRest /\ UnitAtRest /\ SlotAtRest

PileAdd ==
    /\ \E played \in UNION {[1..n -> PileCards] : n \in 0..MaxAddLen} :
        /\ Len(pile_cards) + Len(played) <= MaxPileLen
        /\ pile_cards' = e1_add(pile_cards, played)
        /\ pile_last' = [op |-> "add", arg |-> played, ret |-> <<>>]
    /\ pile_pre' = pile_cards
    /\ UNCHANGED <<base_vars, v2_vars, unit_vars, slot_vars>>

PileClear ==
    /\ pile_cards' = e1_clear(pile_cards).cards
    /\ pile_last' = [op |-> "clear", arg |-> <<>>, ret |-> e1_clear(pile_cards).ret]
    /\ pile_pre' = pile_cards
    /\ UNCHANGED <<base_vars, v2_vars, unit_vars, slot_vars>>

PileTop ==
    /\ pile_last' = [op |-> "top", arg |-> <<>>, ret |-> e1_top(pile_cards)]
    /\ pile_pre' = pile_cards
    /\ UNCHANGED <<pile_cards, base_vars, v2_vars, unit_vars, slot_vars>>

PileDetectBurns ==
    /\ pile_last' = [op |-> "detect_burns", arg |-> <<>>, ret |-> e1_detect_burns(pile_cards)]
    /\ pile_pre' = pile_cards
    /\ UNCHANGED <<pile_cards, base_vars, v2_vars, unit_vars, slot_vars>>

PileNext == PileAdd \/ PileClear \/ PileTop \/ PileDetectBurns

PileSpec == PileInit /\ [][PileNext]_vars

(***************************************************************************)
(* detect_burns applied to piles of up to eight cards                      *)
(***************************************************************************)
\* most cards of a pile handed to the scan
MaxScanLen == 8

\* the cards of such a pile
ScanCards ==
    {e1_Card(EIGHT, "S", "NORMAL"), e1_Card(FIVE, "S", "NORMAL"),
     e1_Card(TWO, "S", "NORMAL"), e1_Card(THREE, "S", "NORMAL")}

\* a pile as a sequence of adds can have left it
ScanInit ==
    /\ pile_cards \in UNION {[1..n -> ScanCards] : n \in 0..MaxScanLen}
    /\ pile_pre = <<>>
    /\ pile_last = PileNoCall
    /\ BaseAtRest /\ V2AtRest /\ UnitAtRest /\ SlotAtRest

ScanNext == PileDetectBurns

ScanSpec == ScanInit /\ [][ScanNext]_vars

(***************************************************************************)
(* Calls of the Card constructors and of effective_rank on given arguments *)
(***************************************************************************)
\* the ranks and suits handed to the constructors, None included
CtorRanks == {None, TWO, EIGHT, A}

CtorSuits == {NoSuit, "S", "H"}

Ranks == TWO..A

CtorInit ==
    /\ ctor_args \in [rank : CtorRanks, suit : CtorSuits, card_type : CardTypes]
    /\ ctor_result = [engine1 |-> "pending", v2 |-> "pending"]
    /\ RankAtRest /\ ReplAtRest /\ ZoneAtRest
    /\ BaseAtRest /\ V2AtRest /\ PileAtRest /\ SlotAtRest

\* CardsGameEngine1.Card(rank, suit, card_type)
ConstructEngine1 ==
    /\ ctor_result.engine1 = "pending"
    /\ ctor_result' = [ctor_result EXCEPT
           !.engine1 = e1_Card_init(ctor_args.rank, ctor_args.suit, ctor_args.card_type)]
    /\ UNCHANGED <<ctor_args, rank_args, rank_result, repl_args, repl_result, zone_args,
                   zone_result, base_vars, v2_vars, pile_vars, slot_vars>>

\* game_full_v_2.Card(rank, suit, card_type)
ConstructV2 ==
    /\ ctor_result.v2 = "pending"
    /\ ctor_result' = [ctor_result EXCEPT
           !.v2 = v2_Card_init(ctor_args.rank, ctor_args.suit, ctor_args.card_type)]
    /\ UNCHANGED <<ctor_args, rank_args, rank_result, repl_args, repl_result, zone_args,
                   zone_result, base_vars, v2_vars, pile_vars, slot_vars>>

CtorNext == ConstructEngine1 \/ ConstructV2

CtorSpec == CtorInit /\ [][CtorNext]_vars

RankInit ==
    /\ rank_args \in Ranks \X Ranks
    /\ rank_result = <<None, None>>
    /\ CtorAtRest /\ ReplAtRest /\ ZoneAtRest
    /\ BaseAtRest /\ V2AtRest /\ PileAtRest /\ SlotAtRest

\* effective_rank applied to both ranks
ApplyEffectiveRank ==
    /\ rank_result = <<None, None>>
    /\ rank_result' = <<effective_rank(rank_args[1]), effective_rank(rank_args[2])>>
    /\ UNCHANGED <<rank_args, ctor_args, ctor_result, repl_args, repl_result, zone_args,
                   zone_result, base_vars, v2_vars, pile_vars, slot_vars>>

RankNext == ApplyEffectiveRank

RankSpec == RankInit /\ [][RankNext]_vars

(***************************************************************************)
(* CardsGameEngine1.py: Player with its emergency slots and action ledger. *)
(* A card object is named by a number; a slot holds the number of its card *)
(* or None.  The operators work on w = [pl, just_acquired, red_deck]: the  *)
(* player, the just_acquired attribute of every card object and the deck   *)
(* handed to grant_fre.                                                    *)
(***************************************************************************)
\* Player.max_emergency_slots
max_emergency_slots == 4

\* EmergencySlot.source_color before any card was put in
NoColor == "none"

\* the card objects of the calls: two held by the caller, four of the red deck
SlotCard(id) ==
    CASE id = 1 -> e1_Card(K, "S", "EMERGENCY_BLUE")
      [] id = 2 -> e1_Card(None, NoSuit, "PFJ")
      [] id = 3 -> e1_Card(FIVE, "S", "EMERGENCY_RED")
      [] id = 4 -> e1_Card(None, NoSuit, "FRE")
      [] id = 5 -> e1_Card(SIX, "H", "EMERGENCY_RED")
      [] OTHER  -> e1_Card(A, "S", "EMERGENCY_RED")

\* EmergencySlot.__init__
EmergencySlot(locked) ==
    [locked |-> locked, card |-> None, known_to_owner |-> FALSE, source_color |-> NoColor]

\* Player.__init__
e1_new_player ==
    [hand |-> <<>>, face_up |-> <<>>, face_down |-> <<>>,
     emergency_slots |-> [i \in 0..(max_emergency_slots - 1) |-> EmergencySlot(i > 0)],
     personal_pile |-> <<>>, status_token |-> None, has_status_ability |-> FALSE,
     can_replenish_full |-> FALSE, emergency_actions |-> [c \in {} |-> FALSE]]

\* Player.hand_limit
e1_hand_limit(pl) == IF pl.has_status_ability THEN 5 ELSE 4

\* Player.needs_replenish
e1_needs_replenish(pl) == Len(pl.hand) < e1_hand_limit(pl)

\* replenish that draws the newest card of the personal pile
RECURSIVE e1_replenish_from_back(_)
e1_replenish_from_back(pl) ==
    IF e1_needs_replenish(pl) /\ pl.personal_pile # <<>>
    THEN e1_replenish_from_back(
             [pl EXCEPT !.hand = Append(pl.hand, pl.personal_pile[Len(pl.personal_pile)]),
                        !.personal_pile = SubSeq(pl.personal_pile, 1, Len(pl.personal_pile) - 1)])
    ELSE pl

\* Player.replenish: "hand.append(personal_pile.pop(0))" while needed
RECURSIVE e1_replenish(_)
e1_replenish(pl) ==
    IF e1_needs_replenish(pl) /\ pl.personal_pile # <<>>
    THEN e1_replenish([pl EXCEPT !.hand = Append(pl.hand, Head(pl.personal_pile)),
                                 !.personal_pile = Tail(pl.personal_pile)])
    ELSE pl

\* the first slot of a "for s in self.emergency_slots" loop that passes a test
first_slot(S) == CHOOSE i \in S : \A j \in S : i <= j

\* Player.locked_slots, as indexes
locked_slots(pl) == {i \in DOMAIN pl.emergency_slots : pl.emergency_slots[i].locked}

\* Player.first_empty_unlocked_slot: <<index>>, or <<>> for None
first_empty_unlocked_slot(pl) ==
    LET E == {i \in DOMAIN pl.emergency_slots :
                 ~pl.emergency_slots[i].locked /\ pl.emergency_slots[i].card = None}
    IN  IF E = {} THEN <<>> ELSE <<first_slot(E)>>

\* open_next_slot that unlocks the last locked slot
open_next_slot_from_end(pl) ==
    LET L == locked_slots(pl)
        last_locked == CHOOSE i \in L : \A j \in L : j <= i
    IN  IF L = {} THEN [pl |-> pl, ret |-> FALSE]
        ELSE [pl |-> [pl EXCEPT !.emergency_slots[last_locked].locked = FALSE], ret |-> TRUE]

\* Player.open_next_slot: the player afterwards and the flag returned
open_next_slot(pl) ==
    LET L == locked_slots(pl)
    IN  IF L = {} THEN [pl |-> pl, ret |-> FALSE]
        ELSE [pl |-> [pl EXCEPT !.emergency_slots[first_slot(L)].locked = FALSE], ret |-> TRUE]

\* Player.open_next_slot_and_get: the player afterwards and <<index>> of the
\* slot returned, <<>> for None
open_next_slot_and_get(pl) ==
    LET L == locked_slots(pl)
    IN  IF L = {} THEN [pl |-> pl, ret |-> <<>>]
        ELSE [pl |-> [pl EXCEPT !.emergency_slots[first_slot(L)].locked = FALSE],
              ret |-> <<first_slot(L)>>]

\* Deck.draw(n): popleft of min(n, len) cards
draw(deck, n) ==
    LET k == IF n < Len(deck) THEN n ELSE Len(deck)
    IN  [drawn |-> SubSeq(deck, 1, k), cards |-> SubSeq(deck, k + 1, Len(deck))]

\* fill_slot that opens the actions of the card whatever just_acquired says
fill_slot_ungated(w, slot, card, known_to_owner, just_acquired, source_color) ==
    LET s == w.pl.emergency_slots[slot]
        color == IF source_color # NoColor THEN source_color
                 ELSE IF SlotCard(card).type = "EMERGENCY_RED" THEN "RED"
                 ELSE IF SlotCard(card).type = "EMERGENCY_BLUE" THEN "BLUE"
                 ELSE s.source_color
    IN  [w EXCEPT !.pl.emergency_slots[slot] =
                      [s EXCEPT !.card = card, !.known_to_owner = known_to_owner,
                                !.source_color = color],
                  !.just_acquired[card] = just_acquired,
                  !.pl.emergency_actions = (card :> [peek |-> TRUE, swap |-> TRUE]) @@ @]

\* Player.fill_slot: set_card, the origin color, the flag of the card and
\* its ledger entry; the slot is neither tested for a lock nor for a card
fill_slot(w, slot, card, known_to_owner, just_acquired, source_color) ==
    LET s == w.pl.emergency_slots[slot]
        color == IF source_color # NoColor THEN source_color
                 ELSE IF SlotCard(card).type = "EMERGENCY_RED" THEN "RED"
                 ELSE IF SlotCard(card).type = "EMERGENCY_BLUE" THEN "BLUE"
                 ELSE s.source_color
    IN  [w EXCEPT !.pl.emergency_slots[slot] =
                      [s EXCEPT !.card = card, !.known_to_owner = known_to_owner,
                                !.source_color = color],
                  !.just_acquired[card] = just_acquired,
                  !.pl.emergency_actions =
                      (card :> [peek |-> ~just_acquired, swap |-> ~just_acquired]) @@ @]

\* Player.emergency_cards: the cards in the slots
emergency_cards(pl) ==
    {pl.emergency_slots[i].card : i \in DOMAIN pl.emergency_slots} \ {None}

\* Player.reset_emergency_actions: the ledger rebuilt from the slots
reset_emergency_actions(w) ==
    [w EXCEPT !.pl.emergency_actions =
        [c \in emergency_cards(w.pl) |->
            [peek |-> ~w.just_acquired[c], swap |-> ~w.just_acquired[c]]]]

\* start_new_burn_cycle that clears the flags and leaves the ledger as it is
start_new_burn_cycle_flags_only(w) ==
    [w EXCEPT !.just_acquired =
        [c \in DOMAIN @ |-> IF c \in emergency_cards(w.pl) THEN FALSE ELSE @[c]]]

\* Player.start_new_burn_cycle: clear just_acquired of the held cards, then
\* reset_emergency_actions
start_new_burn_cycle(w) ==
    reset_emergency_actions(
        [w EXCEPT !.just_acquired =
            [c \in DOMAIN @ |-> IF c \in emergency_cards(w.pl) THEN FALSE ELSE @[c]]])

\* consume_emergency_action that closes only the action asked for
consume_one_action(w, card, which) ==
    IF card \in DOMAIN w.pl.emergency_actions /\ w.pl.emergency_actions[card][which]
    THEN [w |-> [w EXCEPT !.pl.emergency_actions[card][which] = FALSE], ret |-> <<>>]
    ELSE [w |-> w, ret |-> <<>>]

\* Player.consume_emergency_action: the state afterwards and the value
\* returned, which is None (<<>>) on both paths
consume_emergency_action(w, card, which) ==
    IF card \in DOMAIN w.pl.emergency_actions /\ w.pl.emergency_actions[card][which]
    THEN [w |-> [w EXCEPT !.pl.emergency_actions[card] = [peek |-> FALSE, swap |-> FALSE]],
          ret |-> <<>>]
    ELSE [w |-> w, ret |-> <<>>]

\* grant_fre that looks for an empty unlocked slot before it opens a new one
grant_fre_empty_first(w) ==
    LET e == first_empty_unlocked_slot(w.pl)
        o == IF e # <<>> THEN [pl |-> w.pl, ret |-> e] ELSE open_next_slot_and_get(w.pl)
        d == draw(w.red_deck, 1)
        w1 == [w EXCEPT !.pl = o.pl]
    IN  IF o.ret = <<>> THEN [w |-> w1, ret |-> <<>>]
        ELSE IF d.drawn = <<>> THEN [w |-> [w1 EXCEPT !.red_deck = d.cards], ret |-> <<>>]
        ELSE [w |-> fill_slot([w1 EXCEPT !.red_deck = d.cards], o.ret[1], d.drawn[1],
                              TRUE, TRUE, "RED"),
              ret |-> o.ret]

\* Player.grant_fre: open a new slot, else take the first empty unlocked one;
\* draw one card; fill the slot.  The state afterwards and <<index>> of the
\* slot returned, <<>> for None
grant_fre(w) ==
    LET o == open_next_slot_and_get(w.pl)
        slot == IF o.ret # <<>> THEN o.ret ELSE first_empty_unlocked_slot(o.pl)
        d == draw(w.red_deck, 1)
        w1 == [w EXCEPT !.pl = o.pl]
    IN  IF slot = <<>> THEN [w |-> w1, ret |-> <<>>]
        ELSE IF d.drawn = <<>> THEN [w |-> [w1 EXCEPT !.red_deck = d.cards], ret |-> <<>>]
        ELSE [w |-> fill_slot([w1 EXCEPT !.red_deck = d.cards], slot[1], d.drawn[1],
                              TRUE, TRUE, "RED"),
              ret |-> slot]

(***************************************************************************)
(* Calls on one Player of CardsGameEngine1                                 *)
(***************************************************************************)
\* most calls made on the player
MaxSlotCalls == 5

\* the card objects the caller holds and hands to fill_slot
FillCards == {1, 2}

\* the red decks handed to grant_fre, front first
RedDecks == {<<3, 4, 5, 6>>, <<3>>}

\* every card object
SlotCardIds == 1..6

\* the (known_to_owner, just_acquired, source_color) of a fill_slot call
FillOptions == {<<FALSE, TRUE, NoColor>>, <<TRUE, FALSE, "RED">>}

\* the cards named in a consume_emergency_action call
ConsumeCards == {1, 2, 3}

\* the player, the card flags and the deck as one value
World == [pl |-> e1_player, just_acquired |-> e1_just_acquired, red_deck |-> e1_red_deck]

\* Player("T") and a red deck
SlotInit ==
    /\ e1_player = e1_new_player
    /\ e1_just_acquired = [c \in SlotCardIds |-> FALSE]
    /\ e1_red_deck \in RedDecks
    /\ e1_ncall = 0
    /\ e1_pre = <<>>
    /\ e1_last = SlotNoCall
    /\ BaseAtRest /\ V2AtRest /\ PileAtRest /\ UnitAtRest

\* what every call does besides its own effect
SlotCall(w, call) ==
    /\ e1_ncall < MaxSlotCalls
    /\ e1_player' = w.pl
    /\ e1_just_acquired' = w.just_acquired
    /\ e1_red_deck' = w.red_deck
    /\ e1_ncall' = e1_ncall + 1
    /\ e1_pre' = World
    /\ e1_last' = call
    /\ UNCHANGED <<base_vars, v2_vars, pile_vars, unit_vars>>

OpenNextSlot ==
    SlotCall([World EXCEPT !.pl = open_next_slot(e1_player).pl],
             [SlotNoCall EXCEPT !.op = "open_next_slot",
                                !.ret = <<open_next_slot(e1_player).ret>>])

OpenNextSlotAndGet ==
    SlotCall([World EXCEPT !.pl = open_next_slot_and_get(e1_player).pl],
             [SlotNoCall EXCEPT !.op = "open_next_slot_and_get",
                                !.ret = open_next_slot_and_get(e1_player).ret])

\* fill_slot with a card that is neither in a slot nor in the deck
FillSlot ==
    \E slot \in DOMAIN e1_player.emergency_slots,
       card \in FillCards \ emergency_cards(e1_player),
       o \in FillOptions :
        SlotCall(fill_slot(World, slot, card, o[1], o[2], o[3]),
                 [SlotNoCall EXCEPT !.op = "fill_slot", !.slot = slot, !.card = card,
                                    !.which = IF o[2] THEN "just_acquired" ELSE "held"])

GrantFre ==
    SlotCall(grant_fre(World).w, [SlotNoCall EXCEPT !.op = "grant_fre", !.ret = grant_fre(World).ret])

StartNewBurnCycle ==
    SlotCall(start_new_burn_cycle(World), [SlotNoCall EXCEPT !.op = "start_new_burn_cycle"])

ConsumeEmergencyAction ==
    \E card \in ConsumeCards, which \in {"peek", "swap"} :
        SlotCall(consume_emergency_action(World, card, which).w,
                 [SlotNoCall EXCEPT !.op = "consume_emergency_action", !.card = card,
                                    !.which = which,
                                    !.ret = consume_emergency_action(World, card, which).ret])

SlotNext ==
    \/ OpenNextSlot
    \/ OpenNextSlotAndGet
    \/ FillSlot
    \/ GrantFre
    \/ StartNewBurnCycle
    \/ ConsumeEmergencyAction

SlotSpec == SlotInit /\ [][SlotNext]_vars

\* fill_slot as the caller is meant to use it: into the first empty unlocked
\* slot (first_empty_unlocked_slot), with a card that is in no slot
FillEmptySlot ==
    \E card \in FillCards \ emergency_cards(e1_player), o \in FillOptions :
        /\ first_empty_unlocked_slot(e1_player) # <<>>
        /\ SlotCall(fill_slot(World, first_empty_unlocked_slot(e1_player)[1], card,
                              o[1], o[2], o[3]),
                    [SlotNoCall EXCEPT !.op = "fill_slot",
                                       !.slot = first_empty_unlocked_slot(e1_player)[1],
                                       !.card = card,
                                       !.which = IF o[2] THEN "just_acquired" ELSE "held"])

HeldNext ==
    \/ FillEmptySlot
    \/ GrantFre
    \/ StartNewBurnCycle
    \/ ConsumeEmergencyAction

\* the player used with every fill_slot into an empty unlocked slot
HeldSpec == SlotInit /\ [][HeldNext]_vars

(***************************************************************************)
(* Player.replenish of CardsGameEngine1 and of CardBaseGame applied to one *)
(* hand and personal pile                                                  *)
(***************************************************************************)
\* longest hand and longest personal pile handed to replenish
MaxReplHand == 6
MaxReplPile == 3

\* the cards of the hand and of the personal pile
ReplCards == {Card(FOUR, "H"), Card(FIVE, "S")}

\* the lists of at most n of these cards
ReplLists(n) == UNION {[1..k -> ReplCards] : k \in 0..n}

\* the CardsGameEngine1 player with the hand, pile and status flag given
e1_player_of(a) ==
    [e1_new_player EXCEPT !.hand = a.hand, !.personal_pile = a.personal_pile,
                          !.has_status_ability = a.has_status]

\* the CardBaseGame player with the hand, pile and status flag given
base_player_of(a) ==
    [new_player(a.hand, <<>>, <<>>, a.personal_pile) EXCEPT !.has_status = a.has_status]

ReplInit ==
    /\ repl_args \in [hand : ReplLists(MaxReplHand), personal_pile : ReplLists(MaxReplPile),
                      has_status : BOOLEAN]
    /\ repl_result = [engine1 |-> <<>>, base |-> <<>>]
    /\ CtorAtRest /\ RankAtRest /\ ZoneAtRest
    /\ BaseAtRest /\ V2AtRest /\ PileAtRest /\ SlotAtRest

\* CardsGameEngine1: p.replenish(), at most twice in a row
ReplenishEngine1 ==
    /\ Len(repl_result.engine1) < 2
    /\ repl_result' = [repl_result EXCEPT !.engine1 =
           Append(@, e1_replenish(IF @ = <<>> THEN e1_player_of(repl_args) ELSE @[Len(@)]))]
    /\ UNCHANGED <<repl_args, ctor_args, ctor_result, rank_args, rank_result, zone_args,
                   zone_result, base_vars, v2_vars, pile_vars, slot_vars>>

\* CardBaseGame: p.replenish(), at most twice in a row
ReplenishBase ==
    /\ Len(repl_result.base) < 2
    /\ repl_result' = [repl_result EXCEPT !.base =
           Append(@, replenish(IF @ = <<>> THEN base_player_of(repl_args) ELSE @[Len(@)]))]
    /\ UNCHANGED <<repl_args, ctor_args, ctor_result, rank_args, rank_result, zone_args,
                   zone_result, base_vars, v2_vars, pile_vars, slot_vars>>

ReplNext == ReplenishEngine1 \/ ReplenishBase

ReplSpec == ReplInit /\ [][ReplNext]_vars

(***************************************************************************)
(* CardBaseGame: Player.remove_from_zones applied to one player and card   *)
(***************************************************************************)
\* longest hand and longest face-up row of the player
MaxZoneLen == 3

\* the cards of the zones and the cards asked for
ZoneCards == {Card(FIVE, "S"), Card(FIVE, "H"), JK}

\* the lists of at most n of these cards
ZoneLists(n) == UNION {[1..k -> ZoneCards] : k \in 0..n}

ZoneInit ==
    /\ zone_args \in
           [pl : {new_player(h, u, <<Card(FIVE, "S"), JK>>, <<JK, Card(FIVE, "H")>>) :
                     h \in ZoneLists(MaxZoneLen), u \in ZoneLists(MaxZoneLen)},
            card : ZoneCards]
    /\ zone_result = <<>>
    /\ CtorAtRest /\ RankAtRest /\ ReplAtRest
    /\ BaseAtRest /\ V2AtRest /\ PileAtRest /\ SlotAtRest

\* pl.remove_from_zones(card)
RemoveFromZones ==
    /\ zone_result = <<>>
    /\ zone_result' = <<remove_from_zones(zone_args.pl, zone_args.card)>>
    /\ UNCHANGED <<zone_args, ctor_args, ctor_result, rank_args, rank_result, repl_args,
                   repl_result, base_vars, v2_vars, pile_vars, slot_vars>>

ZoneNext == RemoveFromZones

ZoneSpec == ZoneInit /\ [][ZoneNext]_vars

(***************************************************************************)
(* The engine embedded in test_cards_game.py (lines 198-696).  Its Card,   *)
(* CommonPile, Player and GameState have the fields of game_full_v_2's and *)
(* its Card has no __eq__ either, so a game of it is a record of the same  *)
(* shape and is held in the same variables.  GameState.play, resolve_burns *)
(* and emergency_prompt are statement for statement those of               *)
(* game_full_v_2; resolve_offenses differs, and run_demo is its own.       *)
(***************************************************************************)
\* Player.hand_limit
demo_hand_limit(pl) == IF pl.has_status_ability THEN 5 ELSE 4

\* Player.needs_replenish
demo_needs_replenish(pl) ==
    Len(pl.hand) < (IF pl.has_status_ability THEN demo_hand_limit(pl) ELSE 4)

\* Player.replenish
RECURSIVE demo_replenish(_)
demo_replenish(pl) ==
    IF demo_needs_replenish(pl) /\ pl.personal_pile # <<>>
    THEN demo_replenish([pl EXCEPT !.hand = Append(@, Head(pl.personal_pile)),
                                   !.personal_pile = Tail(@)])
    ELSE pl

\* GameState.play of the embedded engine
demo_play(s, p, cs, pair, picks, ans) == v2_play(s, p, cs, pair, picks, ans)

\* resolve_offenses: "self.opponent() if self.current() == pl else self.current()"
demo_defender(s, a) ==
    IF s.current_idx = a.att THEN v2_opponent(s) ELSE s.current_idx

\* resolve_offenses, the body of the loop for one offense a
demo_resolve_one(s, a) ==
    LET df == demo_defender(s, a)
        used == v2_used(s.players[df].hand, a.str)
    IN  IF Len(used) >= a.str
        THEN [s EXCEPT !.players[df].hand = v2_consume(@, used, a.str)]
        ELSE IF s.common_pile # <<>>
        THEN [s EXCEPT !.players[df] = v2_pickup_common(@, s.common_pile),
                       !.common_pile = <<>>]
        ELSE s

\* "for action in list(self.offenses)"
RECURSIVE demo_offense_loop(_, _)
demo_offense_loop(s, todo) ==
    IF todo = <<>> THEN s
    ELSE demo_offense_loop(IF Head(todo).res THEN s ELSE demo_resolve_one(s, Head(todo)),
                           Tail(todo))

\* GameState.resolve_offenses
demo_resolve_offenses(s) ==
    [demo_offense_loop(s, s.offenses) EXCEPT !.offenses = <<>>]

\* process_command after play: offenses resolved, "if not win: game.advance()"
demo_after_play(r) ==
    LET o == demo_resolve_offenses(r.s)
    IN  [s |-> IF r.win THEN o ELSE v2_advance(o), result |-> "played",
         win |-> r.win, trace |-> <<>>]

\* process_command, "play <tokens>"
demo_command_play(s, tokens, picks, ans) ==
    LET pl == s.current_idx
        cs == v2_parse_tokens(tokens, s.next_id)
        pair == v2_pair_flag(tokens)
    IN  IF \E i \in 1..Len(cs) : ~v2_in(cs[i], s.players[pl].hand)
        THEN [s |-> s, result |-> "no_card", win |-> FALSE, trace |-> <<>>, cs |-> cs]
        ELSE [cs |-> cs] @@
             demo_after_play(demo_play([s EXCEPT !.next_id = @ + Len(cs)],
                                       pl, cs, pair, picks, ans))

\* process_command, "burn,<rank>x<count>"
demo_command_burn(s, r, suits, picks, ans) ==
    LET pl == s.current_idx
        cs == [i \in 1..Len(suits) |-> v2_Card(s.next_id + i - 1, r, suits[i], "NORMAL")]
    IN  [cs |-> cs] @@
        demo_after_play(demo_play([s EXCEPT !.next_id = @ + Len(cs)],
                                  pl, cs, FALSE, picks, ans))

\* process_command, "pickup"
demo_command_pickup(s) ==
    IF s.common_pile = <<>>
    THEN [s |-> s, result |-> "none", win |-> FALSE, trace |-> <<>>, cs |-> <<>>]
    ELSE [s |-> [s EXCEPT !.players[s.current_idx] = v2_pickup_common(@, s.common_pile),
                          !.common_pile = <<>>],
          result |-> "picked", win |-> FALSE, trace |-> <<>>, cs |-> <<>>]

\* process_command, "status", "view ..." and unknown commands: messages only
demo_command_other(s) ==
    [s |-> s, result |-> "messages", win |-> FALSE, trace |-> <<>>, cs |-> <<>>]

\* run_demo, the end of the loop body: "if win: break", then
\* "game.current().replenish(); game.advance()"
demo_loop_end(r) ==
    IF r.win THEN r.s
    ELSE v2_advance([r.s EXCEPT !.players[r.s.current_idx] = demo_replenish(@)])

(***************************************************************************)
(* run_demo: the deal, then one step per pass of the loop, from the prompt *)
(* to the next prompt.  v2_last.player is the player who was prompted.     *)
(***************************************************************************)
\* number of commands typed in a session
MaxDemoCommands == 3

\* hands of five, three face-down and two face-up cards drawn from the deck
DemoDeals ==
    { [i \in {0, 1} |->
         v2_new_player([k \in 1..5 |-> v2_Card(10 * i + k, ranks[i + 1][k], "S", "NORMAL")],
                       [k \in 1..2 |-> v2_Card(10 * i + 8 + k, Q, "H", "NORMAL")],
                       [k \in 1..3 |-> v2_Card(10 * i + 5 + k, J, "D", "NORMAL")],
                       <<>>)] :
      ranks \in {<<<<FIVE, SIX, K, K, A>>, <<FOUR, SEVEN, K, TEN, A>>>>,
                 <<<<K, K, K, TWO, THREE>>, <<FOUR, FOUR, EIGHT, NINE, A>>>>} }

\* run_demo up to the first prompt
DemoInit ==
    /\ v2_players \in DemoDeals
    /\ v2_current_idx = 0
    /\ v2_common_pile = <<>>
    /\ v2_first_burn = FALSE
    /\ v2_status_rank = None
    /\ v2_offenses = <<>>
    /\ v2_interactive = TRUE
    /\ v2_next_id = 21
    /\ v2_ncall = 0
    /\ v2_pre = V2Game
    /\ v2_last = V2NoCall
    /\ BaseAtRest /\ PileAtRest /\ UnitAtRest /\ SlotAtRest

\* the loop has been left: "quit" was typed, or the command won
DemoOver == v2_last.op = "quit" \/ v2_last.win

\* one pass of the loop for a command that process_command answered with r
DemoPass(op, cs, pair, r) ==
    /\ ~DemoOver
    /\ v2_ncall < MaxDemoCommands
    /\ V2Record(op, cs, pair, [r EXCEPT !.s = demo_loop_end(r)])

\* "play ..." typed at the prompt
DemoPlayCmd ==
    \E tokens \in V2TokenLists(V2Game) :
        \E picks \in V2Picks(V2Game, v2_parse_tokens(tokens, v2_next_id)),
           ans \in V2Answers(V2Game) :
        LET r == demo_command_play(V2Game, tokens, picks, ans)
        IN  DemoPass("command_play", r.cs, v2_pair_flag(tokens), r)

\* "burn,<rank>x<count>" typed at the prompt
DemoBurnCmd ==
    \E r \in V2BurnRanks, n \in 1..MaxBurnCards :
        \E picks \in V2Picks(V2Game, [i \in 1..n |-> v2_Card(0, r, "S", "NORMAL")]),
           ans \in V2Answers(V2Game) :
            LET res == demo_command_burn(V2Game, r, V2BurnSuits(n), picks, ans)
            IN  DemoPass("command_burn", res.cs, FALSE, res)

\* "pickup" typed at the prompt
DemoPickupCmd == DemoPass("command_pickup", <<>>, FALSE, demo_command_pickup(V2Game))

\* "status", "view ..." or an unknown word typed at the prompt
DemoOtherCmd == DemoPass("command_other", <<>>, FALSE, demo_command_other(V2Game))

\* "quit" or "exit" typed at the prompt: the loop breaks before process_command
DemoQuit ==
    /\ ~DemoOver
    /\ v2_ncall < MaxDemoCommands
    /\ V2Record("quit", <<>>, FALSE,
                [s |-> V2Game, result |-> "quit", win |-> FALSE, trace |-> <<>>])

DemoNext == DemoPlayCmd \/ DemoBurnCmd \/ DemoPickupCmd \/ DemoOtherCmd \/ DemoQuit

DemoSpec == DemoInit /\ [][DemoNext]_vars

(***************************************************************************)
(* One session of either engine: a run_base_game session of CardBaseGame   *)
(* or a sequence of game_full_v_2 calls.  The engine is chosen by the      *)
(* initial state; the other engine's GameState is never constructed.       *)
(***************************************************************************)
StatusInit == RunInit \/ V2Init

StatusNext ==
    \/ (players # <<>> /\ RunNext)
    \/ (v2_players # <<>> /\ V2Next)

StatusSpec == StatusInit /\ [][StatusNext]_vars

(***************************************************************************)
(* Properties of GameState.play, stated on the state in which              *)
(* process_command has just returned (pc = "post"): pre is the game before *)
(* the command, last the command and its result.                           *)
(***************************************************************************)
PostPlay == pc = "post" /\ last.cmd = "play"

Accepted == PostPlay /\ last.result = "accepted"

Rejected == PostPlay /\ last.result \in {"not_owned", "joker_not_alone", "illegal_means"}

\* the acting player and the defender of the last command
Actor == last.player

Defender == 1 - last.player

\* how many cards of list zone equal card c
occurrences(c, zone) == Cardinality({i \in 1..Len(zone) : zone[i] = c})

\* the position of the last Five or Seven of a list, 0 when it has none
last_means_index(cards) ==
    IF \E i \in 1..Len(cards) : cards[i].type = "NORMAL" /\ cards[i].rank \in {FIVE, SEVEN}
    THEN CHOOSE i \in 1..Len(cards) :
            /\ cards[i].type = "NORMAL" /\ cards[i].rank \in {FIVE, SEVEN}
            /\ \A k \in (i + 1)..Len(cards) :
                   ~(cards[k].type = "NORMAL" /\ cards[k].rank \in {FIVE, SEVEN})
    ELSE 0

jokers_in(cards) == Cardinality({i \in 1..Len(cards) : cards[i].type = "JOKER"})

\* the Joker offense of the last play ended in a forced pickup
ForcedPickup ==
    /\ Accepted
    /\ last.played # <<>>
    /\ last.played[Len(last.played)].type = "JOKER"
    /\ Len(players[Defender].hand) > Len(pre.players[Defender].hand)

\* C1: a rejected play (card not owned, Joker not alone, means check failed)
\* leaves every part of the game state as it was and returns a false win flag.
C1_RejectedPlayChangesNothing ==
    Rejected => (Game = pre /\ last.win = FALSE)

\* a play of owned cards was rejected by the means check
C1_Witness ==
    /\ Rejected
    /\ last.result = "illegal_means"
    /\ last.raw_cards # <<>>
    /\ pre.means_active

\* C2: a play is accepted only if the player owns every listed card counted
\* with multiplicity in hand or face-up, so that every accepted play removes
\* exactly len(cards) cards from the player's zones and puts exactly the
\* listed cards on the pile.
C2_AcceptedOnlyOwnedWithMultiplicity ==
    Accepted =>
        /\ \A i \in 1..Len(last.raw_cards) :
               occurrences(last.raw_cards[i], last.raw_cards)
                   <= occurrences(last.raw_cards[i],
                                  pre.players[Actor].hand \o pre.players[Actor].face_up)
        /\ Len(pre.players[Actor].hand) + Len(pre.players[Actor].face_up)
               - Len(last.raw_cards)
           = Len(players[Actor].hand) + Len(players[Actor].face_up)
        /\ last.played = last.raw_cards

\* C3: a play that lists a Joker together with any other card is rejected and
\* changes nothing; only a play of exactly one Joker puts a Joker on the pile.
C3_JokerOnlyAlone ==
    /\ (PostPlay /\ jokers_in(last.raw_cards) > 0 /\ Len(last.raw_cards) # 1)
           => (last.result # "accepted" /\ Game = pre)
    /\ (PostPlay /\ (jokers_in(last.played) > 0
                     \/ jokers_in(common_pile) > jokers_in(pre.common_pile)))
           => (last.result = "accepted" /\ last.raw_cards = <<JK>>)

\* the player owns a Joker and the other card listed with it
C3_Witness ==
    /\ PostPlay
    /\ last.result = "joker_not_alone"
    /\ Len(last.raw_cards) = 2
    /\ jokers_in(last.raw_cards) = 1

\* C4: while means is active and the play is not tagged via_pair, a play is
\* accepted only if every normal card in it other than a Three has effective
\* rank (8 and 9 both 8) strictly below means_limit; a via_pair play, or any
\* play while means is inactive, is never rejected by the means check.
C4_MeansCheck ==
    /\ (Accepted /\ pre.means_active /\ ~last.via_pair) =>
           \A i \in 1..Len(last.raw_cards) :
               LET c == last.raw_cards[i]
                   eff == IF c.rank = NINE THEN EIGHT ELSE c.rank
               IN  (c.type = "NORMAL" /\ c.rank # THREE) => eff < pre.means_limit
    /\ (PostPlay /\ (last.via_pair \/ ~pre.means_active)) => last.result # "illegal_means"

\* a Four (or lower) accepted under an active limit, without via_pair
C4_Witness ==
    /\ Accepted
    /\ pre.means_active
    /\ ~last.via_pair
    /\ \E i \in 1..Len(last.raw_cards) :
           last.raw_cards[i].type = "NORMAL" /\ last.raw_cards[i].rank \notin {TWO, THREE}

C6_StatusTransfer ==
    (Accepted /\ last_means_index(last.played) > 0) =>
        /\ pre.players[Defender].has_status =>
               (players[Actor].has_status /\ ~players[Defender].has_status)
        /\ ~pre.players[Defender].has_status =>
               \A i \in {0, 1} : last.status_after_means[i] = pre.players[i].has_status

\* a Five or Seven played against the holder of the status ability
C6_Witness ==
    /\ Accepted
    /\ last_means_index(last.played) > 0
    /\ pre.players[Defender].has_status
    /\ ~pre.players[Actor].has_status

\* C7: status_rank changes at most once: from unset to the rank of the first
\* burn, in the step in which first_burn becomes true; afterwards no burn,
\* means transfer or pickup changes status_rank or resets first_burn.
C7_StatusRankSetOnce ==
    [][ /\ first_burn => (first_burn' /\ status_rank' = status_rank)
        /\ (~first_burn /\ first_burn') =>
               (last'.burns # <<>> /\ status_rank' = last'.burns[1].rank)
        /\ ~first_burn' => status_rank' = None ]_vars

\* a second burn, of another rank than the one that set status_rank
C7_Witness ==
    /\ Accepted
    /\ pre.first_burn
    /\ last.burns # <<>>
    /\ last.burns[1].rank # pre.status_rank

\* C8: whenever the pile after an accepted play yields a burn, on return the
\* pile is empty, means_active is false and means_limit is unset, also when
\* the play itself contained a Five or Seven.
C8_BurnResetsMeans ==
    (Accepted /\ last.burns # <<>>) =>
        (common_pile = <<>> /\ means_active = FALSE /\ means_limit = None)

\* the play that completed the burn contained a Five
C8_Witness ==
    /\ Accepted
    /\ last.burns # <<>>
    /\ last_means_index(last.played) > 0

\* C9: from an empty pile, four successive accepted single-card plays of
\* Eights and Nines by alternating players: the first three fire no burn and
\* leave 1, 2, 3 cards on the pile; the fourth fires exactly one burn, of rank
\* Eight with count 1, empties the pile, and gives the status ability to its
\* player if and only if no burn had occurred before.
C9_FourEights ==
    /\ (Accepted /\ eight_run.n \in 1..3) =>
           (last.burns = <<>> /\ Len(common_pile) = eight_run.n)
    /\ (Accepted /\ eight_run.n = 4) =>
           /\ last.burns = <<[rank |-> EIGHT, count |-> 1]>>
           /\ common_pile = <<>>
           /\ (players[Actor].has_status /\ ~pre.players[Actor].has_status)
                  <=> ~pre.first_burn

\* the fourth card is played after an earlier burn by the player who does not
\* hold the status ability
C9_Witness ==
    /\ Accepted
    /\ eight_run.n = 4
    /\ pre.first_burn
    /\ ~players[Actor].has_status

\* C10: when the accepted play is a single Joker and the defender's hand holds
\* no Joker and no Four, on return the pile is empty, the defender's hand is
\* its previous content followed by every card that was on the pile and the
\* Joker just played, and the defender's other zones are unchanged.
C10_UnblockedJokerForcesPickup ==
    (/\ Accepted
     /\ last.raw_cards = <<JK>>
     /\ \A i \in 1..Len(pre.players[Defender].hand) :
            LET c == pre.players[Defender].hand[i]
            IN  c.type # "JOKER" /\ ~(c.type = "NORMAL" /\ c.rank = FOUR))
    =>  /\ common_pile = <<>>
        /\ players[Defender].hand = pre.players[Defender].hand \o pre.common_pile \o <<JK>>
        /\ players[Defender].face_up = pre.players[Defender].face_up
        /\ players[Defender].face_down = pre.players[Defender].face_down
        /\ players[Defender].personal_pile = pre.players[Defender].personal_pile

\* the Joker lands on a pile that already holds cards
C10_Witness ==
    /\ Accepted
    /\ last.raw_cards = <<JK>>
    /\ pre.common_pile # <<>>
    /\ ~has_block_piece(pre.players[Defender])
    /\ common_pile = <<>>

(***************************************************************************)
(* Properties of game_full_v_2, stated on the state a call has just left:  *)
(* v2_pre is the game before the call, v2_last the call and its result.    *)
(***************************************************************************)
\* the positions of the cards of a hand that can block an offense
blockers(hand) ==
    {i \in 1..Len(hand) :
        \/ hand[i].type \in {"JOKER", "PFJ"}
        \/ (hand[i].type = "NORMAL" /\ hand[i].rank = FOUR)}

\* the n lowest positions of a set of positions
lowest(P, n) == {i \in P : Cardinality({j \in P : j < i}) < n}

\* a list without the cards at the positions P
without(zone, P) ==
    LET keep == (1..Len(zone)) \ P
    IN  [k \in 1..Cardinality(keep) |->
            zone[CHOOSE i \in keep : Cardinality({j \in keep : j <= i}) = k]]

\* the calls that run resolve_offenses
ResolvedOffenses ==
    /\ v2_last.op \in {"resolve_offenses", "command_play", "command_burn"}
    /\ v2_last.result \in {"resolved", "played"}

\* C11: resolve_offenses, for an offense of strength s: when the defender's
\* hand holds at least s qualifying cards (Joker, normal Four, PFJ), exactly
\* the first s of them in hand order leave the hand and the pile stays as it
\* was; when it holds fewer, no card leaves the hand, the whole pile is added
\* to the hand and the pile is empty.  Either way the offense leaves the queue.
C11_ResolveOffenses ==
    ResolvedOffenses =>
        /\ v2_offenses = <<>>
        /\ \A k \in 1..Len(v2_last.trace) :
               LET e == v2_last.trace[k]
                   q == blockers(e.before.hand)
               IN  IF Cardinality(q) >= e.str
                   THEN /\ e.after.hand = without(e.before.hand, lowest(q, e.str))
                        /\ e.pile_after = e.pile_before
                   ELSE /\ e.after.hand = e.before.hand \o e.pile_before
                        /\ e.pile_after = <<>>

\* two offenses in the queue: the defender's only Four blocks the first, and
\* the second, with no blocker left, ends in the pickup of the pile
C11_Witness ==
    /\ v2_last.op = "resolve_offenses"
    /\ Len(v2_last.trace) = 2
    /\ v2_last.trace[1].pile_after = v2_last.trace[1].pile_before
    /\ Len(v2_last.trace[1].after.hand) = Len(v2_last.trace[1].before.hand) - 1
    /\ v2_last.trace[2].pile_before # <<>>
    /\ v2_common_pile = <<>>
    /\ v2_offenses = <<>>

(***************************************************************************)
(* Properties of the CardBaseGame command loop                             *)
(***************************************************************************)
PostPickup == pc = "post" /\ last.cmd = "pickup"

\* C12: the win flag of an accepted play is true exactly when, after all the
\* effects of the play, the acting player's hand, face-up, face-down and
\* personal pile are all empty.
C12_WinFlag ==
    Accepted =>
        (last.win <=> /\ players[Actor].hand = <<>>
                      /\ players[Actor].face_up = <<>>
                      /\ players[Actor].face_down = <<>>
                      /\ players[Actor].personal_pile = <<>>)

\* a play that wins, and before it a state in which the winner held cards
C12_Witness ==
    /\ Accepted
    /\ last.win
    /\ pre.players[Actor].hand # <<>>

\* C13: when a play command is rejected, the current player index is unchanged
\* and no replenish happens: the same player is prompted for the next command.
C13_RejectedPlayKeepsTurn ==
    [][(Rejected /\ pc' = "prompt") => (current_idx' = current_idx /\ players' = players)]_vars

\* C14: pickup on an empty pile changes no state; on a non-empty pile it
\* appends every pile card to the current player's hand, leaves the pile
\* empty, and changes no other zone of either player.
C14_Pickup ==
    PostPickup =>
        IF pre.common_pile = <<>>
        THEN Game = pre /\ last.result = "nothing"
        ELSE /\ last.result = "picked"
             /\ common_pile = <<>>
             /\ players[Actor].hand = pre.players[Actor].hand \o pre.common_pile
             /\ players[Actor].face_up = pre.players[Actor].face_up
             /\ players[Actor].face_down = pre.players[Actor].face_down
             /\ players[Actor].personal_pile = pre.players[Actor].personal_pile
             /\ players[Defender] = pre.players[Defender]

\* a pickup of a non-empty pile by a player who has a personal pile
C14_Witness ==
    /\ PostPickup
    /\ pre.common_pile # <<>>
    /\ pre.players[Actor].personal_pile # <<>>
    /\ common_pile = <<>>

(***************************************************************************)
(* Properties of effective_rank and of the Card constructors               *)
(***************************************************************************)
\* C15: effective_rank maps Eight and Nine to Eight and every other rank to
\* itself, so two distinct ranks get the same value exactly when they are
\* Eight and Nine.
C15_EffectiveRank ==
    (rank_result # <<None, None>>) =>
        /\ \A i \in {1, 2} :
               rank_result[i] = (IF rank_args[i] = NINE THEN EIGHT ELSE rank_args[i])
        /\ rank_args[1] # rank_args[2] =>
               ((rank_result[1] = rank_result[2]) <=> ({rank_args[1], rank_args[2]} = {EIGHT, NINE}))

\* the function was applied to the Nine and the Eight
C15_Witness ==
    /\ rank_args = <<NINE, EIGHT>>
    /\ rank_result = <<EIGHT, EIGHT>>

\* a ranked kind without rank or suit, or a token kind with a rank or a suit
malformed(args) ==
    IF args.card_type \in {"NORMAL", "EMERGENCY_RED", "EMERGENCY_BLUE"}
    THEN args.rank = None \/ args.suit = NoSuit
    ELSE args.rank # None \/ args.suit # NoSuit

\* C16: constructing a Card fails with an error for every combination in which
\* a NORMAL or EMERGENCY card lacks a rank or a suit or a JOKER, PFJ or FRE is
\* given one, and succeeds for every other combination.
C16_MalformedCardFails ==
    /\ ctor_result.engine1 # "pending" => (ctor_result.engine1 = "ValueError" <=> malformed(ctor_args))
    /\ ctor_result.v2 # "pending" => (ctor_result.v2 = "ValueError" <=> malformed(ctor_args))

(***************************************************************************)
(* Properties of game_full_v_2.process_command                             *)
(***************************************************************************)
\* card c has the kind, rank and suit of some card of the hand
held_alike(c, hand) ==
    \E i \in 1..Len(hand) :
        hand[i].type = c.type /\ hand[i].rank = c.rank /\ hand[i].suit = c.suit

\* C17: a play command naming a card whose kind, rank and suit equal those of
\* a card in the current player's hand passes the ownership check, and that
\* held card leaves the hand and lies on the pile.
C17_ParsedCardMatchesHeld ==
    (/\ v2_last.op = "command_play"
     /\ Len(v2_last.cs) = 1
     /\ held_alike(v2_last.cs[1], v2_pre.players[v2_last.player].hand))
    =>  /\ v2_last.result = "played"
        /\ Len(v2_players[v2_last.player].hand) = Len(v2_pre.players[v2_last.player].hand) - 1

(***************************************************************************)
(* Properties of the CommonPile of CardsGameEngine1, stated on the state a *)
(* call has just left: pile_pre holds the cards before the call            *)
(***************************************************************************)
\* C18: add puts the cards on the pile so that the last card of the list is
\* the new top and earlier plays lie below later ones in play order; an empty
\* add changes nothing; top returns the top card, and none exactly when the
\* pile is empty.
C18_AddAndTop ==
    /\ (pile_last.op = "add" /\ pile_last.arg # <<>>) =>
           /\ e1_top(pile_cards) = <<pile_last.arg[Len(pile_last.arg)]>>
           /\ Len(pile_cards) = Len(pile_pre) + Len(pile_last.arg)
           /\ \A i \in 1..Len(pile_last.arg) :
                  pile_cards[Len(pile_last.arg) + 1 - i] = pile_last.arg[i]
           /\ \A i \in 1..Len(pile_pre) : pile_cards[Len(pile_last.arg) + i] = pile_pre[i]
    /\ (pile_last.op = "add" /\ pile_last.arg = <<>>) => pile_cards = pile_pre
    /\ pile_last.op = "top" =>
           /\ pile_cards = pile_pre
           /\ (pile_last.ret = <<>>) <=> (pile_cards = <<>>)
           /\ pile_cards # <<>> => pile_last.ret = <<pile_cards[1]>>

\* two different cards added in one call onto a pile that holds cards
C18_Witness ==
    /\ pile_last.op = "add"
    /\ Len(pile_last.arg) = 2
    /\ pile_last.arg[1] # pile_last.arg[2]
    /\ pile_pre # <<>>

\* the token kinds
Tokens == {[type |-> t, rank |-> None, suit |-> NoSuit] : t \in {"JOKER", "PFJ", "FRE"}}

\* a list with card c put in after position i (i = 0: on top)
inserted(zone, i, c) == SubSeq(zone, 1, i) \o <<c>> \o SubSeq(zone, i + 1, Len(zone))

\* the positions of the cards that are not tokens
ranked_positions(zone) == {i \in 1..Len(zone) : zone[i].type \notin {"JOKER", "PFJ", "FRE"}}

\* the rank of a card with the Nine read as an Eight
eff(c) == IF c.rank = NINE THEN EIGHT ELSE c.rank

\* C19: tokens are transparent to detect_burns: a token inserted at any
\* position of a pile never changes the result, and a pile whose ranked cards
\* are four cards of one effective rank, with tokens anywhere among them,
\* reports exactly one burn, at that rank.
C19_TokensTransparent ==
    /\ pile_last.op = "detect_burns" =>
           \A t \in Tokens, i \in 0..Len(pile_cards) :
               e1_detect_burns(inserted(pile_cards, i, t)) = pile_last.ret
    /\ (/\ pile_last.op = "detect_burns"
        /\ Cardinality(ranked_positions(pile_cards)) = 4
        /\ \A i, j \in ranked_positions(pile_cards) : eff(pile_cards[i]) = eff(pile_cards[j]))
       => \E i \in ranked_positions(pile_cards) :
              pile_last.ret = <<[rank |-> eff(pile_cards[i]), count |-> 1]>>

\* Eights and Nines with a Joker between them and a Joker on top
C19_Witness ==
    /\ pile_last.op = "detect_burns"
    /\ Len(pile_cards) = 6
    /\ pile_cards[1].type = "JOKER"
    /\ \E i \in 3..5 : pile_cards[i].type = "JOKER"
    /\ Cardinality(ranked_positions(pile_cards)) = 4
    /\ \A i \in ranked_positions(pile_cards) : pile_cards[i].rank \in {EIGHT, NINE}
    /\ \E i \in ranked_positions(pile_cards) : pile_cards[i].rank = NINE
    /\ pile_last.ret = <<[rank |-> EIGHT, count |-> 1]>>

\* the positions of the ranked cards that are neither Twos nor Threes
plain_positions(zone) ==
    {i \in ranked_positions(zone) : zone[i].rank \notin {TWO, THREE}}

\* the position of the topmost ranked non-Two/Three card, 0 when there is none
anchor_position(zone) ==
    IF plain_positions(zone) = {} THEN 0
    ELSE CHOOSE i \in plain_positions(zone) : \A j \in plain_positions(zone) : i <= j

\* the position of the first ranked non-Two/Three card whose effective rank
\* differs from the anchor's, 0 when there is none
stop_position(zone) ==
    LET a == anchor_position(zone)
        others == {i \in plain_positions(zone) : eff(zone[i]) # eff(zone[a])}
    IN  IF a = 0 \/ others = {} THEN 0
        ELSE CHOOSE i \in others : \A j \in others : i <= j

\* C20: the scan of detect_burns stops at the first ranked non-Two/Three card
\* whose effective rank differs from the anchor: that card and the cards below
\* it contribute to no burn, and the only non-Two/Three rank in the result is
\* the effective rank of the topmost ranked non-Two/Three card.
C20_ScanStops ==
    pile_last.op = "detect_burns" =>
        /\ stop_position(pile_cards) > 0 =>
               pile_last.ret = e1_detect_burns(SubSeq(pile_cards, 1, stop_position(pile_cards) - 1))
        /\ \A k \in 1..Len(pile_last.ret) :
               \/ pile_last.ret[k].rank \in {TWO, THREE}
               \/ /\ anchor_position(pile_cards) > 0
                  /\ pile_last.ret[k].rank = eff(pile_cards[anchor_position(pile_cards)])

\* four cards of the anchor's rank in the pile, one of them below a Five:
\* no burn is reported
C20_Witness ==
    /\ pile_last.op = "detect_burns"
    /\ stop_position(pile_cards) > 0
    /\ Cardinality({i \in 1..Len(pile_cards) : pile_cards[i].rank \in {EIGHT, NINE}}) >= 4
    /\ pile_cards[1].rank \in {EIGHT, NINE}
    /\ pile_last.ret = <<>>

\* the cards detect_burns scans: the pile down to, and without, the first
\* ranked non-Two/Three card whose effective rank differs from the anchor's
scanned(zone) ==
    IF stop_position(zone) > 0 THEN SubSeq(zone, 1, stop_position(zone) - 1) ELSE zone

\* the number of ranked cards of effective rank r in a list
count_of(zone, r) == Cardinality({i \in ranked_positions(zone) : eff(zone[i]) = r})

\* the number of cards that count for rank r in the scan of a pile: for Two
\* and Three the cards of that rank, for the anchor rank the anchor-rank
\* cards, and none for any other rank
counted(zone, r) ==
    IF r \in {TWO, THREE} THEN count_of(scanned(zone), r)
    ELSE IF anchor_position(zone) > 0 /\ r = eff(zone[anchor_position(zone)])
    THEN count_of(scanned(zone), r)
    ELSE 0

\* C21: in detect_burns Twos and Threes never anchor and never end the run;
\* within the scanned top segment the result holds rank r with count n \div 4
\* exactly when n >= 4, independently for the anchor rank, for Two and for
\* Three (four Twos burn with or without an anchor burn, a run of eight
\* yields count 2), and the anchor is never a Two or a Three.
C21_IndependentBurns ==
    pile_last.op = "detect_burns" =>
        /\ \A r \in Ranks :
               LET n == counted(pile_cards, r)
                   at == {k \in 1..Len(pile_last.ret) : pile_last.ret[k].rank = r}
               IN  /\ n >= 4 => /\ Cardinality(at) = 1
                                /\ \A k \in at : pile_last.ret[k].count = n \div 4
                   /\ n < 4 => at = {}
        /\ \A k \in 1..Len(pile_last.ret) : pile_last.ret[k].rank \in Ranks

\* four Twos among four Eights, on top of a Five: both ranks burn once
C21_Witness ==
    /\ pile_last.op = "detect_burns"
    /\ Len(pile_cards) = 8
    /\ count_of(pile_cards, TWO) = 4
    /\ pile_cards[1].rank = TWO
    /\ pile_last.ret = <<[rank |-> EIGHT, count |-> 1], [rank |-> TWO, count |-> 1]>>

\* C22: clear returns exactly the cards that were in the pile, in pile order,
\* and leaves the pile empty; top called next returns None and detect_burns
\* called next returns no burns, whatever the pile held before.
C22_ClearResets ==
    /\ [](pile_last.op = "clear" =>
             /\ pile_last.ret = pile_pre
             /\ pile_cards = <<>>
             /\ e1_top(pile_cards) = <<>>
             /\ e1_detect_burns(pile_cards) = <<>>)
    /\ [][pile_last.op = "clear" /\ pile_last'.op \in {"top", "detect_burns"}
             => pile_last'.ret = <<>> /\ pile_cards' = <<>>]_vars

\* a pile that held a burn is cleared
C22_Witness ==
    /\ pile_last.op = "clear"
    /\ Len(pile_last.ret) >= 4
    /\ e1_detect_burns(pile_last.ret) # <<>>
    /\ pile_last.ret[1] # pile_last.ret[Len(pile_last.ret)]

\* the unlocked slots of a player
unlocked(pl) == DOMAIN pl.emergency_slots \ locked_slots(pl)

\* the last call was one of the two that open a slot
OpenCall == e1_last.op \in {"open_next_slot", "open_next_slot_and_get"}

\* C23: a new player has exactly slot 0 unlocked and slots 1..3 locked; each
\* open_next_slot / open_next_slot_and_get call unlocks exactly the lowest
\* locked slot and reports it, or changes nothing and reports False / None
\* when no slot is locked; so every call adds one to the unlocked slots
\* 0..n until all four are open, and no call ever locks a slot again.
C23_SlotsUnlockInOrder ==
    /\ e1_ncall = 0 => unlocked(e1_player) = {0}
    /\ \E n \in 0..3 : unlocked(e1_player) = 0..n
    /\ e1_ncall > 0 => unlocked(e1_pre.pl) \subseteq unlocked(e1_player)
    /\ OpenCall /\ locked_slots(e1_pre.pl) = {} =>
           /\ e1_player = e1_pre.pl
           /\ e1_last.ret = IF e1_last.op = "open_next_slot" THEN <<FALSE>> ELSE <<>>
    /\ OpenCall /\ locked_slots(e1_pre.pl) # {} =>
           LET n == Cardinality(unlocked(e1_pre.pl))
           IN  /\ unlocked(e1_pre.pl) = 0..(n - 1)
               /\ unlocked(e1_player) = 0..n
               /\ e1_player =
                      [e1_pre.pl EXCEPT !.emergency_slots[n].locked = FALSE]
               /\ e1_last.ret = IF e1_last.op = "open_next_slot" THEN <<TRUE>> ELSE <<n>>

\* three calls have opened slots 1, 2 and 3 and the fourth finds none locked
C23_Witness ==
    /\ e1_ncall = 4
    /\ e1_last.op = "open_next_slot"
    /\ e1_last.ret = <<FALSE>>
    /\ unlocked(e1_player) = 0..3
    /\ \A i \in 0..3 : e1_player.emergency_slots[i].card = None

\* both actions of card c are closed / open in the ledger of player pl
closed(pl, c) ==
    c \in DOMAIN pl.emergency_actions
    /\ pl.emergency_actions[c] = [peek |-> FALSE, swap |-> FALSE]

open(pl, c) ==
    c \in DOMAIN pl.emergency_actions
    /\ pl.emergency_actions[c] = [peek |-> TRUE, swap |-> TRUE]

\* the card the last call installed with just_acquired = True, as a set
installed_gated ==
    IF e1_last.op = "fill_slot" /\ e1_last.which = "just_acquired" THEN {e1_last.card}
    ELSE IF e1_last.op = "grant_fre" /\ e1_last.ret # <<>> THEN {e1_pre.red_deck[1]}
    ELSE {}

\* the card the last call handed to fill_slot, as a set
installed ==
    IF e1_last.op = "fill_slot" THEN {e1_last.card}
    ELSE IF e1_last.op = "grant_fre" /\ e1_last.ret # <<>> THEN {e1_pre.red_deck[1]}
    ELSE {}

\* C24: a card installed by fill_slot with just_acquired = True has the
\* ledger entry {peek: False, swap: False} right afterwards and keeps it,
\* with its flag, over every call up to the next start_new_burn_cycle; that
\* call, with the card still in its slot, makes the entry {peek: True,
\* swap: True} and the just_acquired flag False.
C24_GatedUntilNextCycle ==
    /\ \A c \in installed_gated : closed(e1_player, c) /\ e1_just_acquired[c]
    /\ \A c \in SlotCardIds \ installed :
           (/\ e1_ncall > 0
            /\ e1_last.op # "start_new_burn_cycle"
            /\ e1_pre.just_acquired[c]
            /\ closed(e1_pre.pl, c))
           => closed(e1_player, c) /\ e1_just_acquired[c]
    /\ e1_last.op = "start_new_burn_cycle" =>
           \A c \in emergency_cards(e1_pre.pl) :
               /\ c \in emergency_cards(e1_player)
               /\ open(e1_player, c)
               /\ ~e1_just_acquired[c]

\* a card that was installed gated and sat in its slot with both actions
\* closed is opened by start_new_burn_cycle
C24_Witness ==
    /\ e1_last.op = "start_new_burn_cycle"
    /\ \E c \in emergency_cards(e1_pre.pl) :
           /\ e1_pre.just_acquired[c]
           /\ closed(e1_pre.pl, c)
           /\ open(e1_player, c)
           /\ ~e1_just_acquired[c]

\* the last call asked for an action of its card that the ledger held open
Performed ==
    /\ e1_last.op = "consume_emergency_action"
    /\ e1_last.card \in DOMAIN e1_pre.pl.emergency_actions
    /\ e1_pre.pl.emergency_actions[e1_last.card][e1_last.which]

\* C25: consume_emergency_action on an available action ('peek' or 'swap')
\* sets both peek and swap of that card to False and leaves every other
\* entry, and everything else, unchanged; a closed entry stays closed over
\* every call up to the next start_new_burn_cycle (a new fill_slot of the
\* same card apart), and a further request on it performs nothing, so at
\* most one action is performed per card and burn cycle.
C25_ConsumeClosesBoth ==
    /\ Performed =>
           /\ e1_player = [e1_pre.pl EXCEPT
                  !.emergency_actions[e1_last.card] = [peek |-> FALSE, swap |-> FALSE]]
           /\ e1_just_acquired = e1_pre.just_acquired
           /\ e1_red_deck = e1_pre.red_deck
    /\ \A c \in SlotCardIds \ installed :
           (/\ e1_ncall > 0
            /\ e1_last.op # "start_new_burn_cycle"
            /\ closed(e1_pre.pl, c))
           => closed(e1_player, c)
    /\ (e1_last.op = "consume_emergency_action" /\ closed(e1_pre.pl, e1_last.card))
           => ~Performed /\ World = e1_pre

\* one of two open cards is consumed: its entry closes, the other stays open
C25_Witness ==
    /\ Performed
    /\ e1_last.which = "peek"
    /\ closed(e1_player, e1_last.card)
    /\ \E c \in SlotCardIds \ {e1_last.card} : open(e1_pre.pl, c) /\ open(e1_player, c)

\* the value consume_emergency_action returns when it performs the action
performed_result == <<>>

\* C26: consume_emergency_action on an action that is not available (entry
\* False, or no entry for the card) leaves the ledger unchanged and reports
\* the outcome: the value returned differs from the value a performed
\* action returns.
C26_UnavailableReported ==
    (e1_last.op = "consume_emergency_action" /\ ~Performed) =>
        /\ e1_player.emergency_actions = e1_pre.pl.emergency_actions
        /\ e1_last.ret # performed_result

\* the empty unlocked slots of a player
empty_unlocked(pl) == {i \in unlocked(pl) : pl.emergency_slots[i].card = None}

\* the slot grant_fre is to use: the lowest locked one, the lowest empty
\* unlocked one when none is locked, and no slot (<<>>) when there is neither
fre_target(pl) ==
    IF locked_slots(pl) # {}
    THEN <<CHOOSE i \in locked_slots(pl) : \A j \in locked_slots(pl) : i <= j>>
    ELSE IF empty_unlocked(pl) # {}
    THEN <<CHOOSE i \in empty_unlocked(pl) : \A j \in empty_unlocked(pl) : i <= j>>
    ELSE <<>>

\* C27: grant_fre with a non-empty deck: when a slot is locked the lowest
\* locked slot is unlocked and receives the card, even when an unlocked slot
\* is empty; only when no slot is locked the first empty unlocked slot is
\* used; exactly one card leaves the front of the deck; the installed card
\* is known to the owner, has just_acquired = True and the ledger entry
\* {peek: False, swap: False}; the call returns None, and changes nothing,
\* when every slot is unlocked and occupied.
C27_GrantFre ==
    (e1_last.op = "grant_fre" /\ e1_pre.red_deck # <<>>) =>
        LET t == fre_target(e1_pre.pl)
            card == e1_pre.red_deck[1]
        IN  /\ e1_last.ret = t
            /\ t = <<>> => World = e1_pre
            /\ t # <<>> =>
                   /\ e1_player.emergency_slots =
                          [e1_pre.pl.emergency_slots EXCEPT ![t[1]] =
                              [locked |-> FALSE, card |-> card, known_to_owner |-> TRUE,
                               source_color |-> "RED"]]
                   /\ e1_red_deck = Tail(e1_pre.red_deck)
                   /\ e1_just_acquired = [e1_pre.just_acquired EXCEPT ![card] = TRUE]
                   /\ closed(e1_player, card)
                   /\ \A c \in DOMAIN e1_pre.pl.emergency_actions \ {card} :
                          /\ c \in DOMAIN e1_player.emergency_actions
                          /\ e1_player.emergency_actions[c] = e1_pre.pl.emergency_actions[c]

\* slot 0 is open and empty, slot 1 is locked: the card goes to slot 1
C27_Witness ==
    /\ e1_last.op = "grant_fre"
    /\ e1_pre.red_deck # <<>>
    /\ 0 \in empty_unlocked(e1_pre.pl)
    /\ e1_last.ret = <<1>>
    /\ e1_player.emergency_slots[1].card = e1_pre.red_deck[1]
    /\ e1_player.emergency_slots[0].card = None

\* the hand limit of the player replenish was called on
repl_limit == IF repl_args.has_status THEN 5 ELSE 4

\* the smaller of two numbers
smaller(a, b) == IF a < b THEN a ELSE b

\* what the claim says of the players a sequence of replenish calls left
replenished(result) ==
    /\ Len(result) >= 1 =>
           LET r == result[1]
           IN  /\ r.hand \o r.personal_pile = repl_args.hand \o repl_args.personal_pile
               /\ Len(repl_args.hand) >= repl_limit =>
                      r.hand = repl_args.hand /\ r.personal_pile = repl_args.personal_pile
               /\ Len(repl_args.hand) < repl_limit =>
                      Len(r.hand) = smaller(repl_limit,
                                            Len(repl_args.hand) + Len(repl_args.personal_pile))
    /\ Len(result) = 2 => result[2] = result[1]

\* C28: Player.replenish, in CardsGameEngine1 and in CardBaseGame, moves
\* cards from the front of the personal pile to the end of the hand, oldest
\* first, until the hand holds 4 cards (5 with the status ability) or the
\* pile is empty; a hand at or above the limit is left as it is, hand
\* followed by pile is the same list before and after, no other field
\* changes, and a second call right after the first changes nothing.
C28_Replenish ==
    /\ replenished(repl_result.engine1)
    /\ replenished(repl_result.base)
    /\ \A k \in 1..Len(repl_result.engine1) :
           repl_result.engine1[k] =
               [e1_player_of(repl_args) EXCEPT
                   !.hand = repl_result.engine1[k].hand,
                   !.personal_pile = repl_result.engine1[k].personal_pile]
    /\ \A k \in 1..Len(repl_result.base) :
           repl_result.base[k] =
               [base_player_of(repl_args) EXCEPT
                   !.hand = repl_result.base[k].hand,
                   !.personal_pile = repl_result.base[k].personal_pile]

\* a hand of two cards and a pile of three, no status: two cards are drawn
\* in pile order, the third stays, and the second call found nothing to do
C28_Witness ==
    /\ Len(repl_result.engine1) = 2 /\ Len(repl_result.base) = 2
    /\ ~repl_args.has_status
    /\ Len(repl_args.hand) = 2
    /\ Len(repl_args.personal_pile) = 3
    /\ repl_args.personal_pile[1] # repl_args.personal_pile[2]
    /\ repl_result.engine1[1].hand =
           repl_args.hand \o SubSeq(repl_args.personal_pile, 1, 2)
    /\ repl_result.base[1].personal_pile = <<repl_args.personal_pile[3]>>

\* the indexes of the cards of a zone that match the card asked for: both
\* normal with the same rank and suit, or both Jokers
matches(zone, card) ==
    {i \in 1..Len(zone) :
        \/ zone[i].type = "JOKER" /\ card.type = "JOKER"
        \/ /\ zone[i].type = "NORMAL" /\ card.type = "NORMAL"
           /\ zone[i].rank = card.rank /\ zone[i].suit = card.suit}

\* a zone without its first card that matches
without_first(zone, card) ==
    LET i == CHOOSE i \in matches(zone, card) : \A j \in matches(zone, card) : i <= j
    IN  SubSeq(zone, 1, i - 1) \o SubSeq(zone, i + 1, Len(zone))

\* C29: remove_from_zones(card) of CardBaseGame removes exactly one card
\* that matches by rank and suit (normal) or by kind (Joker): from the hand
\* whenever the hand holds a match, from face-up only when the hand holds
\* none; it returns True exactly when a card was removed, returns False and
\* changes nothing when neither zone holds a match, and never changes the
\* face-down cards or the personal pile.
C29_RemoveFromZones ==
    zone_result # <<>> =>
        LET pl == zone_args.pl
            card == zone_args.card
            r == zone_result[1]
        IN  /\ r.pl.face_down = pl.face_down
            /\ r.pl.personal_pile = pl.personal_pile
            /\ r.pl.has_status = pl.has_status
            /\ r.ok <=> (matches(pl.hand, card) # {} \/ matches(pl.face_up, card) # {})
            /\ r.ok <=> Len(r.pl.hand) + Len(r.pl.face_up) = Len(pl.hand) + Len(pl.face_up) - 1
            /\ matches(pl.hand, card) # {} =>
                   r.pl.hand = without_first(pl.hand, card) /\ r.pl.face_up = pl.face_up
            /\ (matches(pl.hand, card) = {} /\ matches(pl.face_up, card) # {}) =>
                   r.pl.face_up = without_first(pl.face_up, card) /\ r.pl.hand = pl.hand
            /\ ~r.ok => r.pl = pl

\* hand and face-up both hold the card asked for, the hand twice: one copy
\* leaves the hand
C29_Witness ==
    /\ zone_result # <<>>
    /\ Cardinality(matches(zone_args.pl.hand, zone_args.card)) = 2
    /\ matches(zone_args.pl.face_up, zone_args.card) # {}
    /\ zone_args.card.type = "NORMAL"
    /\ zone_result[1].ok
    /\ Len(zone_result[1].pl.hand) = Len(zone_args.pl.hand) - 1
    /\ zone_result[1].pl.face_up = zone_args.pl.face_up

\* the card objects in the four zones of a player, as identities
zone_ids(pl) ==
    {pl.hand[i].id : i \in 1..Len(pl.hand)}
    \cup {pl.face_up[i].id : i \in 1..Len(pl.face_up)}
    \cup {pl.face_down[i].id : i \in 1..Len(pl.face_down)}
    \cup {pl.personal_pile[i].id : i \in 1..Len(pl.personal_pile)}

\* the number of cards in the zones of both players and on the common pile
card_total(s) ==
    Len(s.common_pile)
    + Len(s.players[0].hand) + Len(s.players[0].face_up)
    + Len(s.players[0].face_down) + Len(s.players[0].personal_pile)
    + Len(s.players[1].hand) + Len(s.players[1].face_up)
    + Len(s.players[1].face_down) + Len(s.players[1].personal_pile)

\* C30: in game_full_v_2 every card a play appends to the common pile was
\* removed from one of the acting player's zones by that play, so no card is
\* at once on the pile and in a zone of a player, and the number of cards in
\* both players' hand, face-up, face-down, personal pile and the common pile
\* never grows over a play, a resolve_offenses or a pickup.
C30_PlayedCardsLeaveZones ==
    /\ v2_last.op = "play" =>
           \A k \in 1..Len(v2_last.cs) :
               /\ v2_last.cs[k].id \in zone_ids(v2_pre.players[v2_last.player])
               /\ v2_last.cs[k].id \notin zone_ids(V2Game.players[v2_last.player])
    /\ v2_ncall > 0 =>
           \A k \in 1..Len(v2_common_pile) :
               v2_common_pile[k].id \notin
                   zone_ids(V2Game.players[0]) \cup zone_ids(V2Game.players[1])
    /\ v2_last.op \in {"play", "resolve_offenses", "command_play", "command_pickup"} =>
           card_total(V2Game) <= card_total(v2_pre)

\* C38: with every fill_slot made into an empty unlocked slot, after any
\* sequence of fill_slot, grant_fre, start_new_burn_cycle and
\* consume_emergency_action every ledger entry has peek equal to swap, every
\* slot card whose just_acquired flag is True has both False, and the ledger
\* has an entry for every card held in a slot and for no other card.
C38_LedgerMatchesSlots ==
    /\ \A c \in DOMAIN e1_player.emergency_actions :
           e1_player.emergency_actions[c].peek = e1_player.emergency_actions[c].swap
    /\ \A c \in emergency_cards(e1_player) : e1_just_acquired[c] => closed(e1_player, c)
    /\ DOMAIN e1_player.emergency_actions = emergency_cards(e1_player)
    /\ \A c \in emergency_cards(e1_player) :
           ~e1_just_acquired[c] /\ e1_last.op = "start_new_burn_cycle" => open(e1_player, c)

\* three cards in slots after a burn cycle and a grant: one consumed, one
\* open, one just acquired
C38_Witness ==
    /\ Cardinality(emergency_cards(e1_player)) = 3
    /\ \E c \in emergency_cards(e1_player) : e1_just_acquired[c] /\ closed(e1_player, c)
    /\ \E c \in emergency_cards(e1_player) : ~e1_just_acquired[c] /\ closed(e1_player, c)
    /\ \E c \in emergency_cards(e1_player) : open(e1_player, c)

\* C40: whenever grant_fre returns None (no slot available, or the deck is
\* empty) the emergency slots of the player (locks, cards, visibility,
\* provenance), the action ledger and the deck are unchanged.
C40_FailedGrantChangesNothing ==
    (e1_last.op = "grant_fre" /\ e1_last.ret = <<>>) =>
        /\ e1_player.emergency_slots = e1_pre.pl.emergency_slots
        /\ e1_player.emergency_actions = e1_pre.pl.emergency_actions
        /\ e1_red_deck = e1_pre.red_deck

\* the last play was accepted and ended with a Joker on top: a Joker offense
JokerOffense ==
    /\ Accepted
    /\ last.played # <<>>
    /\ last.played[Len(last.played)].type = "JOKER"

\* the hand is the earlier hand without one card, a Joker or a Four
lost_block_piece(before, after) ==
    \E i \in 1..Len(before) :
        /\ before[i].type = "JOKER" \/ (before[i].type = "NORMAL" /\ before[i].rank = FOUR)
        /\ after = SubSeq(before, 1, i - 1) \o SubSeq(before, i + 1, Len(before))

\* C31: every Joker offense of CardBaseGame ends in one of two ways, whatever
\* the defender answers at the block prompt: one Joker or one Four has left
\* the defender's hand and the pile, with the Joker on it, is in place; or
\* the defender's hand has received the whole pile and the pile is empty.
\* It never ends with the defender's hand unchanged and the pile in place.
C31_JokerOffenseOutcome ==
    JokerOffense =>
        \/ /\ lost_block_piece(pre.players[Defender].hand, players[Defender].hand)
           /\ common_pile = pre.common_pile \o last.played
        \/ /\ common_pile = <<>>
           /\ players[Defender].hand =
                  pre.players[Defender].hand \o pre.common_pile \o last.played

\* the pile the burn detection of the last play looked at
pile_at_burn_check == pre.common_pile \o last.played

\* the positions of the cards of a pile that count for a burn: normal cards
\* other than Twos and Threes
counting(zone) ==
    {i \in 1..Len(zone) : zone[i].type = "NORMAL" /\ zone[i].rank \notin {TWO, THREE}}

\* the four topmost counting cards of a pile (the top is the end of the list)
top_four(zone) ==
    {i \in counting(zone) : Cardinality({j \in counting(zone) : j > i}) < 4}

\* C32: a burn of CardBaseGame fires only when four cards of one effective
\* rank lie at the top of the pile with nothing but tokens, Twos and Threes
\* between them: four cards of one effective rank with a ranked card of
\* another effective rank between them cause no burn.
C32_BurnOnlyFromTopRun ==
    (Accepted /\ last.burns # <<>>) =>
        /\ Cardinality(top_four(pile_at_burn_check)) = 4
        /\ \A i, j \in top_four(pile_at_burn_check) :
               eff(pile_at_burn_check[i]) = eff(pile_at_burn_check[j])

\* two records of one player agree on the zones a pickup is not to touch
same_other_zones(before, after) ==
    /\ after.personal_pile = before.personal_pile
    /\ after.face_up = before.face_up
    /\ after.face_down = before.face_down

\* C33: in game_full_v_2 a pickup of the common pile, forced by a failed
\* block in resolve_offenses or made by the pickup command, changes only the
\* common pile and the hand of the player who picks up: that player's
\* personal pile, face-up and face-down cards are the same before and after,
\* and the zones of the other player are unchanged.
C33_PickupTouchesOnlyHand ==
    /\ (v2_last.op = "command_pickup" /\ v2_last.result = "picked") =>
           /\ same_other_zones(v2_pre.players[v2_last.player], v2_players[v2_last.player])
           /\ v2_players[1 - v2_last.player] = v2_pre.players[1 - v2_last.player]
    /\ v2_last.op \in {"resolve_offenses", "command_play", "command_burn"} =>
           \A k \in 1..Len(v2_last.trace) :
               Len(v2_last.trace[k].after.hand) >= Len(v2_last.trace[k].before.hand)
               => same_other_zones(v2_last.trace[k].before, v2_last.trace[k].after)

\* the emergency cards of a game_full_v_2 player, red then blue
v2_held(pl) == pl.emergency_red \o pl.emergency_blue

\* the last call resolved a burn for its player: a blue emergency card was added
BurnResolved ==
    /\ v2_last.op \in {"play", "command_play", "command_burn"}
    /\ Len(v2_players[v2_last.player].emergency_blue)
           > Len(v2_pre.players[v2_last.player].emergency_blue)

\* C34: in game_full_v_2 an emergency card acquired during one burn, or by
\* playing FRE, is inert for that burn cycle only: when the next call
\* resolves a burn for its holder, the card is no longer flagged
\* just_acquired, so that emergency_prompt offers its peek or swap.
C34_InertForOneCycle ==
    BurnResolved =>
        \A i \in 1..Len(v2_held(v2_pre.players[v2_last.player])) :
            \A j \in 1..Len(v2_held(v2_players[v2_last.player])) :
                v2_held(v2_players[v2_last.player])[j].id
                    = v2_held(v2_pre.players[v2_last.player])[i].id
                => ~v2_held(v2_players[v2_last.player])[j].just_acquired

\* the last command was an accepted play without via_pair, made under means
PlayUnderMeans == Accepted /\ ~last.via_pair /\ pre.means_active

holders == {i \in DOMAIN players : players[i].has_status}

\* the players of game_full_v_2 who hold the status ability
v2_holders == {i \in DOMAIN v2_players : v2_players[i].has_status_ability}

\* C37: in every reachable state of either GameState at most one player
\* holds the status ability, and a player holds it only when first_burn is
\* true and status_rank is set; before the first burn nobody holds it.
C37_OneStatusHolder ==
    /\ Cardinality(holders) <= 1
    /\ holders # {} => (first_burn /\ status_rank # None)
    /\ Cardinality(v2_holders) <= 1
    /\ v2_holders # {} => (v2_first_burn /\ v2_status_rank # None)

\* the ability has just moved from one game_full_v_2 player to the other
C37_Witness ==
    /\ v2_players # <<>>
    /\ \E i \in {0, 1} :
          /\ v2_pre.players[1 - i].has_status_ability
          /\ v2_holders = {i}

\* C39: in CardBaseGame, whenever GameState.play or a pickup has returned
\* and whenever a player is awaiting a command, the common pile holds no
\* unresolved burn: detect_burns() on the pile is empty.
C39_NoUnresolvedBurn ==
    pc \in {"prompt", "post", "over"} => detect_burns(common_pile) = <<>>

\* a play that found a burn has returned, and the pile holds none
C39_Witness ==
    /\ Accepted
    /\ last.burns # <<>>
    /\ detect_burns(common_pile) = <<>>

\* C35: in run_demo of the engine embedded in test_cards_game.py turns
\* alternate: after an accepted play command that did not win, the player
\* prompted for the next command is the other player, not the one who played.
C35_TurnsAlternate ==
    (v2_last.op = "command_play" /\ v2_last.result = "played" /\ ~v2_last.win)
        => v2_current_idx # v2_last.player

====
